---- MODULE Spec2Model ----
(***************************************************************************)
(* CRM request handlers (contacts, accounts, activities, deals, leads,     *)
(* user profiles) over the Prisma store, as in                             *)
(* src/client/components/CRMAccounts.tsx.                                  *)
(*                                                                         *)
(* A JavaScript string is a sequence of one-character strings, so that the *)
(* string transforms of the handlers are computed and not assumed.         *)
(* undefined / null is the one-element sequence Undefined.                 *)
(***************************************************************************)
EXTENDS Integers, Sequences, FiniteSets, TLC

VARIABLES
  contacts,      \* prisma.contact: the stored rows, in insertion order
  accounts,      \* prisma.account
  activities,    \* prisma.activityLog
  deals,         \* prisma.activeDeal
  leads,         \* prisma.lead
  userProfiles,  \* prisma.userProfile
  clock,         \* number of rows created so far (ids and createdAt come from it)
  res,           \* the response sent by the last handler invocation, with its request
  probe,         \* one enum value followed through a write path and a read path
  view,          \* the Accounts view: its React state, the alerts shown, the store calls made
  inflight,      \* handler invocations running concurrently, each with its position
  history        \* the row counts of every state the store has been in (observer)

vars == <<contacts, accounts, activities, deals, leads, userProfiles, clock, res, probe,
          view, inflight, history>>

----------------------------------------------------------------------------
(* Bounds of the model *)

\* rows created in one behaviour
MaxCreates == 2
\* length of the enum strings fed to the write and read transforms
MaxLen == 5

----------------------------------------------------------------------------
(* JavaScript values and string operations *)

Undefined == <<"undefined">>

\* JS truthiness of a string-or-undefined value: undefined and "" are falsy
Truthy(v) == v # Undefined /\ v # <<>>

\* a || b
Or(a, b) == IF Truthy(a) THEN a ELSE b

Lowers == <<"a", "b", "c", "d", "e", "f", "g", "h", "i", "j", "k", "l", "m",
            "n", "o", "p", "q", "r", "s", "t", "u", "v", "w", "x", "y", "z">>

Uppers == <<"A", "B", "C", "D", "E", "F", "G", "H", "I", "J", "K", "L", "M",
            "N", "O", "P", "Q", "R", "S", "T", "U", "V", "W", "X", "Y", "Z">>

UpperOf(c) ==
  IF \E i \in 1..26 : Lowers[i] = c
  THEN Uppers[CHOOSE i \in 1..26 : Lowers[i] = c]
  ELSE c

LowerOf(c) ==
  IF \E i \in 1..26 : Uppers[i] = c
  THEN Lowers[CHOOSE i \in 1..26 : Uppers[i] = c]
  ELSE c

\* String.prototype.toUpperCase
toUpperCase(s) == [i \in 1..Len(s) |-> UpperOf(s[i])]

toLowerCase(s) == [i \in 1..Len(s) |-> LowerOf(s[i])]

\* the characters the regular expression \s matches
IsWhitespace(c) == c \in {" ", "\t", "\n"}

\* index of the first occurrence of character c in s, 0 when there is none
IndexOf(s, c) ==
  IF \E i \in 1..Len(s) : s[i] = c
  THEN CHOOSE i \in 1..Len(s) : s[i] = c /\ \A j \in 1..(i - 1) : s[j] # c
  ELSE 0

\* s.replace(from, to) with a one-character string pattern: the first occurrence only
replaceFirst(s, from, to) ==
  LET i == IndexOf(s, from)
  IN  IF i = 0 THEN s ELSE [s EXCEPT ![i] = to]

\* s.replace(/_/g, " "): every occurrence
replaceAll(s, from, to) == [i \in 1..Len(s) |-> IF s[i] = from THEN to ELSE s[i]]

RECURSIVE DropWhitespace(_)
DropWhitespace(s) ==
  IF s # <<>> /\ IsWhitespace(Head(s)) THEN DropWhitespace(Tail(s)) ELSE s

\* s.replace(/\s+/g, "_"): every maximal run of whitespace becomes one underscore
RECURSIVE replaceWhitespaceRuns(_)
replaceWhitespaceRuns(s) ==
  IF s = <<>> THEN <<>>
  ELSE IF IsWhitespace(Head(s))
       THEN <<"_">> \o replaceWhitespaceRuns(DropWhitespace(Tail(s)))
       ELSE <<Head(s)>> \o replaceWhitespaceRuns(Tail(s))

\* s.includes(t): t occurs in s as a contiguous substring
includes(s, t) ==
  \E i \in 0..(Len(s) - Len(t)) : \A j \in 1..Len(t) : s[i + j] = t[j]

\* s.split(" "): the pieces between single spaces (empty pieces kept)
RECURSIVE split(_, _)
split(s, sep) ==
  LET i == IndexOf(s, sep)
  IN  IF i = 0 THEN <<s>>
      ELSE <<SubSeq(s, 1, i - 1)>> \o split(SubSeq(s, i + 1, Len(s)), sep)

\* parts.join(" ")
RECURSIVE join(_, _)
join(parts, sep) ==
  IF parts = <<>> THEN <<>>
  ELSE IF Len(parts) = 1 THEN parts[1]
  ELSE parts[1] \o <<sep>> \o join(Tail(parts), sep)

----------------------------------------------------------------------------
(* The enum transforms, as the handlers write them inline *)

\* v ? v.replace(/\s+/g, "_").toUpperCase() : undefined
storageGlobal(v) ==
  IF Truthy(v) THEN toUpperCase(replaceWhitespaceRuns(v)) ELSE Undefined

\* storageFirst with the replacement forgotten
storageFirstNoReplace(v) ==
  IF Truthy(v) THEN toUpperCase(v) ELSE Undefined

\* v ? v.replace(" ", "_").toUpperCase() : undefined
storageFirst(v) ==
  IF Truthy(v) THEN toUpperCase(replaceFirst(v, " ", "_")) ELSE Undefined

\* v ? v.replace(/_/g, " ") : undefined
displayGlobal(v) ==
  IF Truthy(v) THEN replaceAll(v, "_", " ") ELSE Undefined

\* displayFirst handing the stored text out as it is
displayFirstRaw(v) ==
  IF Truthy(v) THEN v ELSE Undefined

\* v ? v.replace("_", " ") : undefined
displayFirst(v) ==
  IF Truthy(v) THEN replaceFirst(v, "_", " ") ELSE Undefined

\* v?.replace(/_/g, " ")
displayGlobalOptional(v) ==
  IF v = Undefined THEN Undefined ELSE replaceAll(v, "_", " ")

\* the placeholder identity stamped on every write
System == <<"s", "y", "s", "t", "e", "m">>

----------------------------------------------------------------------------
(* Rows and request bodies.  A row or a body is a function from field names *)
(* to values; a field that is not given is Undefined.                       *)

Kinds == {"contact", "account", "activity", "deal", "lead", "userProfile"}

\* fields holding a number (a time); 0 stands for "not given"
TimeFields == {"createdAt", "dateTime"}

Columns(kind) ==
  CASE kind = "contact" ->
         {"id", "firstName", "lastName", "emailAddress", "source", "status",
          "createdBy", "updatedBy", "createdAt"}
    [] kind = "account" ->
         {"id", "accountName", "industry", "accountRating", "status", "geo",
          "createdBy", "updatedBy", "createdAt"}
    [] kind = "activity" ->
         {"id", "activityType", "outcomeDisposition", "dateTime",
          "createdBy", "updatedBy", "createdAt"}
    [] kind = "deal" ->
         {"id", "dealName", "dealOwner", "businessLine", "closingDate", "geo",
          "entity", "stage", "createdBy", "updatedBy", "createdAt"}
    [] kind = "lead" ->
         {"id", "firstName", "lastName", "email", "leadSource", "status",
          "rating", "createdBy", "updatedBy", "createdAt"}
    [] kind = "userProfile" ->
         {"id", "firstName", "lastName", "email", "role", "createdAt"}

\* the fields a request body may carry: the columns and the alternate names
BodyFields(kind) ==
  CASE kind = "contact" -> Columns(kind) \cup {"name", "email"}
    [] kind = "deal" -> Columns(kind) \cup {"owner"}
    [] kind = "lead" -> Columns(kind) \cup {"name", "source"}
    [] OTHER -> Columns(kind)

Absent(f) == IF f \in TimeFields THEN 0 ELSE Undefined

\* a body of the kind giving exactly the fields of `given`
Body(kind, given) ==
  [f \in BodyFields(kind) |-> IF f \in DOMAIN given THEN given[f] ELSE Absent(f)]

\* the spread written after the literal's own keys: the keys the body gives win
SpreadLast(data, overrides) ==
  [f \in DOMAIN data \cup DOMAIN overrides |->
     IF f \in DOMAIN data /\ (f \notin DOMAIN overrides \/ data[f] # Absent(f))
     THEN data[f] ELSE overrides[f]]

\* { ...data, <overrides> }: the object literal's own keys win over the spread
Spread(data, overrides) ==
  [f \in DOMAIN data \cup DOMAIN overrides |->
     IF f \in DOMAIN overrides THEN overrides[f] ELSE data[f]]

----------------------------------------------------------------------------
(* Dates.  A Date is named by its toISOString() text; new Date(s) is         *)
(* modelled for the ISO form YYYY-MM-DDTHH:mm:ss.sssZ, every other text      *)
(* giving the invalid date.                                                  *)

InvalidDate == <<"Invalid Date">>

Digits == <<"0", "1", "2", "3", "4", "5", "6", "7", "8", "9">>

IsDigit(c) == \E i \in 1..10 : Digits[i] = c

DigitValue(c) == (CHOOSE i \in 1..10 : Digits[i] = c) - 1

TwoDigits(s, i) == 10 * DigitValue(s[i]) + DigitValue(s[i + 1])

IsoShape == <<"d", "d", "d", "d", "-", "d", "d", "-", "d", "d", "T",
              "d", "d", ":", "d", "d", ":", "d", "d", ".", "d", "d", "d", "Z">>

DaysInMonth(year, month) ==
  IF month = 2
  THEN IF year % 4 = 0 /\ (year % 100 # 0 \/ year % 400 = 0) THEN 29 ELSE 28
  ELSE IF month \in {4, 6, 9, 11} THEN 30 ELSE 31

IsIsoDateTime(s) ==
  /\ Len(s) = Len(IsoShape)
  /\ \A i \in 1..Len(IsoShape) :
       IF IsoShape[i] = "d" THEN IsDigit(s[i]) ELSE s[i] = IsoShape[i]
  /\ TwoDigits(s, 6) \in 1..12
  /\ TwoDigits(s, 9) \in 1..DaysInMonth(100 * TwoDigits(s, 1) + TwoDigits(s, 3),
                                       TwoDigits(s, 6))
  /\ TwoDigits(s, 12) \in 0..23
  /\ TwoDigits(s, 15) \in 0..59
  /\ TwoDigits(s, 18) \in 0..59

\* new Date(s)
newDate(s) == IF IsIsoDateTime(s) THEN s ELSE InvalidDate

NoonSuffix == <<"T", "1", "2", ":", "0", "0", ":", "0", "0", ".", "0", "0", "0", "Z">>

\* the date conversion without its validity check
closingDateUnchecked(data) ==
  IF ~Truthy(data.closingDate) THEN Undefined
  ELSE IF includes(data.closingDate, <<"T">>)
       THEN newDate(data.closingDate)
       ELSE newDate(data.closingDate \o NoonSuffix)

\* createDeal's date conversion: the closingDate handed to the store
closingDateOf(data) ==
  IF ~Truthy(data.closingDate) THEN Undefined
  ELSE LET d == IF includes(data.closingDate, <<"T">>)
                THEN newDate(data.closingDate)
                ELSE newDate(data.closingDate \o NoonSuffix)
       IN  IF d = InvalidDate THEN Undefined ELSE d

----------------------------------------------------------------------------
(* What each write handler hands to the store, and what each read path      *)
(* makes of a stored row                                                    *)

\* nameParts of createContact and createLead
nameParts(data) == IF Truthy(data.name) THEN split(data.name, " ") ELSE <<>>

firstNameOf(data) ==
  Or(data.firstName,
     Or(IF nameParts(data) # <<>> THEN nameParts(data)[1] ELSE Undefined, <<>>))

\* the last name taken as the second piece only
lastNameSecondPiece(data) ==
  Or(data.lastName,
     Or(IF Len(nameParts(data)) >= 2 THEN nameParts(data)[2] ELSE Undefined, <<>>))

lastNameOf(data) ==
  Or(data.lastName,
     Or(IF nameParts(data) # <<>> THEN join(Tail(nameParts(data)), " ") ELSE <<>>,
        <<>>))

contactData(data) ==
  [firstName |-> firstNameOf(data),
   lastName |-> lastNameOf(data),
   emailAddress |-> Or(data.emailAddress, data.email),
   source |-> storageGlobal(data.source),
   status |-> storageGlobal(data.status),
   createdBy |-> System,
   updatedBy |-> System]

contactUpdateData(data) ==
  Spread(data, [source |-> storageGlobal(data.source),
                status |-> storageGlobal(data.status),
                updatedBy |-> System])

contactView(row) ==
  [row EXCEPT !.source = displayGlobalOptional(@),
              !.status = displayGlobalOptional(@)]

accountData(data) ==
  Spread(data, [accountRating |-> storageGlobal(data.accountRating),
                status |-> storageFirst(data.status),
                geo |-> storageFirst(data.geo),
                createdBy |-> System,
                updatedBy |-> System])

accountUpdateData(data) ==
  Spread(data, [accountRating |-> storageGlobal(data.accountRating),
                status |-> storageFirst(data.status),
                geo |-> storageFirst(data.geo),
                updatedBy |-> System])

accountView(row) ==
  [row EXCEPT !.accountRating = displayGlobal(@),
              !.status = displayFirst(@),
              !.geo = displayFirst(@)]

\* data.activityType?.replace(...): a missing activityType passed on as undefined
activityDataNeverThrows(data) == FALSE

\* data.activityType.replace(...) on a body without activityType: a TypeError
activityDataThrows(data) == data.activityType = Undefined

activityData(data) ==
  Spread(data, [activityType |-> toUpperCase(replaceFirst(data.activityType, " ", "_")),
                outcomeDisposition |-> storageGlobal(data.outcomeDisposition),
                createdBy |-> System,
                updatedBy |-> System])

activityUpdateData(data) ==
  Spread(data, [activityType |-> storageFirst(data.activityType),
                outcomeDisposition |-> storageGlobal(data.outcomeDisposition),
                updatedBy |-> System])

activityView(row) ==
  [row EXCEPT !.activityType = replaceFirst(@, "_", " "),
              !.outcomeDisposition = displayGlobal(@)]

dealData(data) ==
  [dealOwner |-> Or(data.dealOwner, data.owner),
   dealName |-> data.dealName,
   businessLine |-> storageGlobal(data.businessLine),
   closingDate |-> closingDateOf(data),
   geo |-> storageGlobal(data.geo),
   entity |-> storageGlobal(data.entity),
   stage |-> storageGlobal(data.stage),
   createdBy |-> System,
   updatedBy |-> System]

dealUpdateData(data) ==
  Spread(data, [businessLine |-> storageGlobal(data.businessLine),
                geo |-> storageFirst(data.geo),
                entity |-> storageGlobal(data.entity),
                stage |-> storageGlobal(data.stage),
                updatedBy |-> System])

dealView(row) ==
  [row EXCEPT !.businessLine = displayGlobal(@),
              !.geo = displayFirst(@),
              !.entity = displayFirst(@),
              !.stage = displayGlobal(@)]

\* leadData taking the source from leadSource only
leadDataLeadSourceOnly(data) ==
  [firstName |-> firstNameOf(data),
   lastName |-> lastNameOf(data),
   email |-> data.email,
   leadSource |-> storageGlobal(data.leadSource),
   status |-> storageGlobal(data.status),
   rating |-> storageGlobal(data.rating),
   createdBy |-> System,
   updatedBy |-> System]

leadData(data) ==
  [firstName |-> firstNameOf(data),
   lastName |-> lastNameOf(data),
   email |-> data.email,
   leadSource |-> storageGlobal(Or(data.leadSource, data.source)),
   status |-> storageGlobal(data.status),
   rating |-> storageGlobal(data.rating),
   createdBy |-> System,
   updatedBy |-> System]

leadUpdateData(data) ==
  Spread(data, [leadSource |-> storageGlobal(data.leadSource),
                status |-> storageFirst(data.status),
                rating |-> storageFirst(data.rating),
                updatedBy |-> System])

leadView(row) ==
  [row EXCEPT !.leadSource = displayGlobal(@),
              !.status = displayFirst(@),
              !.rating = displayFirst(@)]

\* the default profile getCurrentUserProfile creates
defaultUserProfile ==
  [firstName |-> <<"J", "o", "h", "n">>,
   lastName |-> <<"D", "o", "e">>,
   email |-> <<"j", "@", "y">>,
   role |-> <<"S", "A", "L", "E", "S", "_", "M", "A", "N", "A", "G", "E", "R">>]

userProfileUpdateData(data) ==
  Spread(data, [role |-> storageGlobal(data.role)])

userProfileView(row) ==
  [row EXCEPT !.role = displayGlobalOptional(@)]

\* the data of a create, by kind (a userProfile is only ever created as the default)
CreateData(kind, data) ==
  CASE kind = "contact" -> contactData(data)
    [] kind = "account" -> accountData(data)
    [] kind = "activity" -> activityData(data)
    [] kind = "deal" -> dealData(data)
    [] kind = "lead" -> leadData(data)
    [] kind = "userProfile" -> defaultUserProfile

UpdateData(kind, data) ==
  CASE kind = "contact" -> contactUpdateData(data)
    [] kind = "account" -> accountUpdateData(data)
    [] kind = "activity" -> activityUpdateData(data)
    [] kind = "deal" -> dealUpdateData(data)
    [] kind = "lead" -> leadUpdateData(data)
    [] kind = "userProfile" -> userProfileUpdateData(data)

View(kind, row) ==
  CASE kind = "contact" -> contactView(row)
    [] kind = "account" -> accountView(row)
    [] kind = "activity" -> activityView(row)
    [] kind = "deal" -> dealView(row)
    [] kind = "lead" -> leadView(row)
    [] kind = "userProfile" -> userProfileView(row)

\* the categorical fields of each kind
EnumFields(kind) ==
  CASE kind = "contact" -> {"source", "status"}
    [] kind = "account" -> {"accountRating", "status", "geo"}
    [] kind = "activity" -> {"activityType", "outcomeDisposition"}
    [] kind = "deal" -> {"businessLine", "geo", "entity", "stage"}
    [] kind = "lead" -> {"leadSource", "status", "rating"}
    [] kind = "userProfile" -> {"role"}

----------------------------------------------------------------------------
(* Query parameters *)

RECURSIVE DigitPrefix(_)
DigitPrefix(s) ==
  IF s # <<>> /\ IsDigit(Head(s)) THEN <<Head(s)>> \o DigitPrefix(Tail(s)) ELSE <<>>

RECURSIVE DecimalValue(_)
DecimalValue(ds) ==
  IF ds = <<>> THEN 0
  ELSE 10 * DecimalValue(SubSeq(ds, 1, Len(ds) - 1)) + DigitValue(ds[Len(ds)])

\* parseInt(s): leading whitespace skipped, an optional sign, then the longest run
\* of digits; NaN when there is no digit there (and for undefined)
parseInt(s) ==
  IF s = Undefined THEN [nan |-> TRUE, value |-> 0]
  ELSE LET t == DropWhitespace(s)
           neg == t # <<>> /\ Head(t) = "-"
           u == IF t # <<>> /\ Head(t) \in {"-", "+"} THEN Tail(t) ELSE t
           ds == DigitPrefix(u)
       IN  IF ds = <<>> THEN [nan |-> TRUE, value |-> 0]
           ELSE [nan |-> FALSE,
                 value |-> IF neg THEN 0 - DecimalValue(ds) ELSE DecimalValue(ds)]

DefaultPage == 1
DefaultLimit == 10

\* parseInt(s) || fallback: NaN and 0 are falsy
parseIntOr(s, fallback) ==
  LET p == parseInt(s)
  IN  IF p.nan \/ p.value = 0 THEN fallback ELSE p.value

\* the division rounded down instead of up
ceilDivFloor(total, limit) == total \div limit

\* Math.ceil(total / limit), total >= 0 and limit # 0
ceilDiv(total, limit) ==
  IF limit > 0 THEN (total + limit - 1) \div limit
  ELSE 0 - (total \div (0 - limit))

----------------------------------------------------------------------------
(* The store: the Prisma client calls the handlers make *)

Table(kind) ==
  CASE kind = "contact" -> contacts
    [] kind = "account" -> accounts
    [] kind = "activity" -> activities
    [] kind = "deal" -> deals
    [] kind = "lead" -> leads
    [] kind = "userProfile" -> userProfiles

SetTable(kind, rows) ==
  /\ contacts' = IF kind = "contact" THEN rows ELSE contacts
  /\ accounts' = IF kind = "account" THEN rows ELSE accounts
  /\ activities' = IF kind = "activity" THEN rows ELSE activities
  /\ deals' = IF kind = "deal" THEN rows ELSE deals
  /\ leads' = IF kind = "lead" THEN rows ELSE leads
  /\ userProfiles' = IF kind = "userProfile" THEN rows ELSE userProfiles

tables == <<contacts, accounts, activities, deals, leads, userProfiles>>

\* the id the store generates for its n-th row
IdOf(n) == [i \in 1..n |-> "#"]

Given(data, f) == f \in DOMAIN data /\ data[f] # Absent(f)

\* a key of the data that is no column of the table: the client rejects the call
UnknownArgument(kind, data) ==
  \E f \in DOMAIN data : f \notin Columns(kind) /\ Given(data, f)

\* a DateTime column takes a Date or a full ISO-8601 text, nothing else
BadDateTime(kind, data) ==
  /\ "closingDate" \in Columns(kind)
  /\ Given(data, "closingDate")
  /\ newDate(data.closingDate) = InvalidDate

IndexOfId(rows, id) ==
  IF \E i \in 1..Len(rows) : rows[i].id = id
  THEN CHOOSE i \in 1..Len(rows) : rows[i].id = id
  ELSE 0

\* findUnique({ where: { id } }): <<row>>, or <<>> for null
findUnique(rows, id) ==
  IF IndexOfId(rows, id) = 0 THEN <<>> ELSE <<rows[IndexOfId(rows, id)]>>

\* a findFirst that never finds a row
findFirstNull(rows) == <<>>

\* findFirst(): <<row>>, or <<>> for null
findFirst(rows) == IF rows = <<>> THEN <<>> ELSE <<rows[1]>>

\* the row create({ data }) inserts: defaults for the id and the times
NewRow(kind, data, now) ==
  [f \in Columns(kind) |->
     IF Given(data, f) THEN data[f]
     ELSE IF f = "id" THEN IdOf(now)
     ELSE IF f \in TimeFields THEN now
     ELSE Undefined]

createThrows(kind, rows, data) ==
  \/ UnknownArgument(kind, data)
  \/ BadDateTime(kind, data)
  \/ Given(data, "id") /\ IndexOfId(rows, data.id) # 0

\* update({ where: { id }, data }) throws when no row has the id
updateThrows(kind, rows, id, data) ==
  \/ IndexOfId(rows, id) = 0
  \/ UnknownArgument(kind, data)
  \/ BadDateTime(kind, data)
  \/ Given(data, "id") /\ data.id # id /\ IndexOfId(rows, data.id) # 0

\* an update that fills in only what the row does not hold yet
UpdatedRowKeepsStored(row, data) ==
  [f \in DOMAIN row |-> IF Given(data, f) /\ row[f] = Absent(f) THEN data[f] ELSE row[f]]

\* the row an update leaves: the given keys of data replace the stored values
UpdatedRow(row, data) ==
  [f \in DOMAIN row |-> IF Given(data, f) THEN data[f] ELSE row[f]]

\* an update without its where clause: every row is written
updateEvery(rows, id, data) ==
  [i \in 1..Len(rows) |-> UpdatedRow(rows[i], data)]

update(rows, id, data) ==
  [rows EXCEPT ![IndexOfId(rows, id)] = UpdatedRow(@, data)]

\* delete({ where: { id } }) throws when no row has the id
deleteThrows(rows, id) == IndexOfId(rows, id) = 0

delete(rows, id) ==
  SubSeq(rows, 1, IndexOfId(rows, id) - 1)
    \o SubSeq(rows, IndexOfId(rows, id) + 1, Len(rows))

\* contains without mode "insensitive"
containsSensitive(value, search) ==
  value # Undefined /\ includes(value, search)

\* contains with mode "insensitive"
containsInsensitive(value, search) ==
  value # Undefined /\ includes(toLowerCase(value), toLowerCase(search))

\* the where clause of a list: OR over the searchable fields, {} without a search
Matches(row, fields, search) ==
  IF Truthy(search) /\ fields # {}
  THEN \E f \in fields : containsInsensitive(row[f], search)
  ELSE TRUE

RECURSIVE Filter(_, _, _)
Filter(rows, fields, search) ==
  IF rows = <<>> THEN <<>>
  ELSE (IF Matches(Head(rows), fields, search) THEN <<Head(rows)>> ELSE <<>>)
         \o Filter(Tail(rows), fields, search)

\* orderBy: { key: "desc" }
RECURSIVE InsertDesc(_, _, _)
InsertDesc(sorted, row, key) ==
  IF sorted = <<>> THEN <<row>>
  ELSE IF row[key] > Head(sorted)[key] THEN <<row>> \o sorted
  ELSE <<Head(sorted)>> \o InsertDesc(Tail(sorted), row, key)

RECURSIVE orderByDesc(_, _)
orderByDesc(rows, key) ==
  IF rows = <<>> THEN <<>>
  ELSE InsertDesc(orderByDesc(SubSeq(rows, 1, Len(rows) - 1), key), rows[Len(rows)], key)

Min(a, b) == IF a < b THEN a ELSE b

\* findMany rejects a negative skip
findManyThrows(skip) == skip < 0

\* findMany({ where, skip, take, orderBy }): a negative take counts from the end
findMany(rows, fields, search, skip, take, key) ==
  LET all == orderByDesc(Filter(rows, fields, search), key)
      n == Len(all)
  IN  IF take >= 0
      THEN SubSeq(all, skip + 1, Min(n, skip + take))
      ELSE SubSeq(all, IF n - skip + take + 1 > 1 THEN n - skip + take + 1 ELSE 1, n - skip)

count(rows, fields, search) == Len(Filter(rows, fields, search))

----------------------------------------------------------------------------
(* Requests drawn by the model *)

\* the ids a request may name: those the store can have generated, and one more
RequestIds == {IdOf(n) : n \in 1..(MaxCreates + 1)}

PageParams ==
  {Undefined, <<"0">>, <<"1">>, <<"2">>, <<"-", "1">>, <<"x">>, <<"2", "x">>}

LimitParams ==
  {Undefined, <<"0">>, <<"1">>, <<"2">>, <<"-", "1">>, <<"x">>}

SearchParams == {Undefined, <<>>, <<"a", "b">>, <<"E">>}

\* the parameters of an ordinary request
PlainParams == {Undefined, <<"1">>, <<"2">>}

\* the queries drawn: page or limit of the ordinary kind, and a search given only
\* with both of them ordinary
Queries(searches) ==
  {q \in [page : PageParams, limit : LimitParams, search : searches] :
     /\ q.page \in PlainParams \/ q.limit \in PlainParams
     /\ q.search # Undefined => (q.page \in PlainParams /\ q.limit \in PlainParams)}

\* the identity the Accounts view puts in its payload ("current-user")
CurrentUser == <<"c", "u">>

ContactBodies ==
  {Body("contact", [name |-> <<"A", "b", " ", "C", "d">>,
                    email |-> <<"x", "@", "y">>,
                    status |-> <<"A", " ", "B">>]),
   Body("contact", [firstName |-> <<"E", "d">>,
                    lastName |-> <<"x", "A", "B">>,
                    source |-> <<"a", "_", "b">>,
                    createdBy |-> CurrentUser,
                    updatedBy |-> CurrentUser])}

AccountBodies ==
  {Body("account", [accountName |-> <<"A", "b">>,
                    industry |-> <<"E", "d">>,
                    status |-> <<"A", " ", "B">>,
                    geo |-> <<>>]),
   Body("account", [accountName |-> <<"C", "d">>,
                    industry |-> <<"x", "a", "B">>,
                    accountRating |-> <<"a">>,
                    geo |-> <<"A", "_", "B", "_", "A">>,
                    createdBy |-> CurrentUser,
                    updatedBy |-> CurrentUser])}

ActivityBodies ==
  {Body("activity", [activityType |-> <<"A", " ", "B">>, dateTime |-> 9,
                     outcomeDisposition |-> <<>>,
                     createdBy |-> CurrentUser, updatedBy |-> CurrentUser]),
   Body("activity", [activityType |-> <<"a">>,
                     outcomeDisposition |-> <<"A", " ", " ", "B">>]),
   Body("activity", [outcomeDisposition |-> <<"A">>])}

DateOnly == <<"2", "0", "2", "4", "-", "0", "6", "-", "1", "5">>
DateTimestamp == DateOnly \o <<"T", "1", "0", ":", "3", "0", ":", "0", "0", ".", "0", "0", "0", "Z">>
DateBadMonth == <<"2", "0", "2", "4", "-", "1", "3", "-", "4", "5">>
DateBadText == <<"T", "u", "e">>

ClosingDates == {Undefined, DateOnly, DateTimestamp, DateBadMonth, DateBadText}

DealBodies ==
  {Body("deal", [dealName |-> <<"D">>, closingDate |-> d]) : d \in ClosingDates}
    \cup {Body("deal", [dealName |-> <<"E">>,
                        owner |-> <<"o">>,
                        geo |-> <<"A", " ", "B">>,
                        stage |-> <<"a", " ", "b">>,
                        createdBy |-> CurrentUser,
                        updatedBy |-> CurrentUser])}

LeadBodies ==
  {Body("lead", [name |-> <<"A", "b">>, source |-> <<"A", " ", "B">>]),
   Body("lead", [firstName |-> <<"C">>,
                 leadSource |-> <<"a">>,
                 rating |-> <<"A", " ", "B">>,
                 createdBy |-> CurrentUser,
                 updatedBy |-> CurrentUser])}

UserProfileBodies ==
  {Body("userProfile", [role |-> <<"a", " ", "b">>]),
   Body("userProfile", [firstName |-> <<"E", "d">>, role |-> <<>>])}

\* the bodies of the updates: the bodies above that carry only columns, and, for a
\* deal, one closing date of each kind; one body of each kind gives an enum field
\* as the empty string
UpdateBodies(kind) ==
  CASE kind = "contact" ->
         {Body("contact", [status |-> <<"B">>, source |-> <<>>]),
          Body("contact", [firstName |-> <<"E", "d">>, source |-> <<"a", " ", "b">>,
                           createdBy |-> CurrentUser, updatedBy |-> CurrentUser])}
    [] kind = "account" -> AccountBodies
    [] kind = "activity" -> ActivityBodies
    [] kind = "deal" ->
         {Body("deal", [dealName |-> <<"F">>, closingDate |-> d]) :
            d \in {DateOnly, DateTimestamp, DateBadMonth}}
           \cup {Body("deal", [geo |-> <<"A", " ", "B">>, stage |-> <<>>,
                               createdBy |-> CurrentUser, updatedBy |-> CurrentUser])}
    [] kind = "lead" ->
         {Body("lead", [status |-> <<"A", " ", "B">>, rating |-> <<>>]),
          Body("lead", [firstName |-> <<"C">>, leadSource |-> <<"a">>,
                        createdBy |-> CurrentUser, updatedBy |-> CurrentUser])}
    [] kind = "userProfile" -> UserProfileBodies

----------------------------------------------------------------------------
(* Responses.  res records the request and the response envelope.           *)

NoResponse ==
  [handler |-> "none", kind |-> "none",
   id |-> Undefined, body |-> <<>>, query |-> <<>>,
   status |-> 0, success |-> FALSE, data |-> <<>>,
   found |-> FALSE, threw |-> FALSE, storeFailed |-> FALSE, typeError |-> FALSE,
   sent |-> 0,
   page |-> 0, limit |-> 0, skip |-> 0, take |-> 0, total |-> 0, totalPages |-> 0]

Request(handler, kind, id, body, query) ==
  [NoResponse EXCEPT !.handler = handler, !.kind = kind, !.id = id,
                     !.body = body, !.query = query]

\* res.json(...) / res.status(201).json(...) of a success envelope
Success(req, status, data) ==
  [req EXCEPT !.status = status, !.success = TRUE, !.data = data, !.sent = @ + 1]

\* a miss answered as a success without data
NotFoundAsSuccess(req) ==
  [req EXCEPT !.status = 200, !.success = TRUE, !.sent = @ + 1]

\* the 404 of the read handlers
NotFound(req) == [req EXCEPT !.status = 404, !.success = FALSE, !.sent = @ + 1]

\* a handler without its catch block: the exception leaves it and nothing is sent
FailureUnanswered(req, storeFailed) ==
  [req EXCEPT !.threw = TRUE, !.storeFailed = storeFailed]

\* the catch block: res.status(500).json({ success: false, ... })
Failure(req, storeFailed) ==
  [req EXCEPT !.status = 500, !.success = FALSE, !.threw = TRUE,
              !.storeFailed = storeFailed, !.sent = @ + 1]

\* the catch block reached from an exception of the handler's own code, thrown
\* while the argument of the store call is built: the store is not called
TypeErrorCaught(req) == [Failure(req, FALSE) EXCEPT !.typeError = TRUE]

----------------------------------------------------------------------------
(* The handlers.  `fail` is the store call failing for a reason of its own  *)
(* (connection lost, constraint violated): it throws and changes nothing.   *)
(* Requests are served one after another: a handler takes the next request  *)
(* once the previous exchange has ended.                                    *)

Idle == res.handler = "none"

\* The handlers of one table read and write that table only: a behaviour
\* follows the requests on the one table it populates.
Focused(kind) == \A k \in Kinds \ {kind} : Table(k) = <<>>

\* the requests of a list: every query, and the store failing on one of them
ListRequests(searches) ==
  {<<q, FALSE>> : q \in Queries(searches)}
    \cup {<<[page |-> Undefined, limit |-> <<"2">>, search |-> Undefined], TRUE>>}

\* getContact, getAccount, getActivity, getDeal, getLead, getUserProfile
GetById(handler, kind) ==
  /\ Idle
  /\ Focused(kind)
  /\ \E id \in RequestIds, fail \in BOOLEAN :
    LET found == findUnique(Table(kind), id)
        req == [Request(handler, kind, id, <<>>, <<>>) EXCEPT !.found = found # <<>>]
    IN  /\ res' = IF fail THEN Failure(req, TRUE)
                  ELSE IF found = <<>> THEN NotFound(req)
                  ELSE Success(req, 200, <<View(kind, found[1])>>)
        /\ UNCHANGED <<tables, clock, probe, view, inflight, history>>

\* getContacts, getAccounts, getActivities, getDeals, getLeads
List(handler, kind, fields, key) ==
  /\ Idle
  /\ Focused(kind)
  /\ \E r \in ListRequests(IF fields = {} THEN {Undefined} ELSE SearchParams) :
    LET q == r[1]
        fail == r[2]
        page == parseIntOr(q.page, DefaultPage)
        limit == parseIntOr(q.limit, DefaultLimit)
        skip == (page - 1) * limit
        req == [Request(handler, kind, Undefined, <<>>, q)
                  EXCEPT !.page = page, !.limit = limit, !.skip = skip, !.take = limit]
        items == findMany(Table(kind), fields, q.search, skip, limit, key)
        total == count(Table(kind), fields, q.search)
    IN  /\ res' = IF fail \/ findManyThrows(skip) THEN Failure(req, fail)
                  ELSE [Success(req, 200, [i \in 1..Len(items) |-> View(kind, items[i])])
                          EXCEPT !.total = total, !.totalPages = ceilDiv(total, limit)]
        /\ UNCHANGED <<tables, clock, probe, view, inflight, history>>

\* createContact, createAccount, createActivity, createDeal, createLead
Create(handler, kind, bodies) ==
  /\ Idle
  /\ Focused(kind)
  /\ \E data \in bodies, fail \in BOOLEAN :
    LET req == Request(handler, kind, Undefined, data, <<>>)
        typeError == kind = "activity" /\ activityDataThrows(data)
        d == CreateData(kind, data)
        row == NewRow(kind, d, clock + 1)
    IN  IF typeError
        THEN /\ res' = TypeErrorCaught(req)
             /\ UNCHANGED <<tables, clock, probe, view, inflight, history>>
        ELSE IF fail \/ createThrows(kind, Table(kind), d)
        THEN /\ res' = Failure(req, fail)
             /\ UNCHANGED <<tables, clock, probe, view, inflight, history>>
        ELSE /\ clock < MaxCreates
             /\ SetTable(kind, Append(Table(kind), row))
             /\ clock' = clock + 1
             /\ res' = Success(req, 201, <<View(kind, row)>>)
             /\ UNCHANGED <<probe, view, inflight, history>>

\* updateContact, updateAccount, updateActivity, updateDeal, updateLead,
\* updateUserProfile
Update(handler, kind) ==
  /\ Idle
  /\ Focused(kind)
  /\ \E id \in RequestIds, data \in UpdateBodies(kind), fail \in BOOLEAN :
    LET req == [Request(handler, kind, id, data, <<>>)
                  EXCEPT !.found = IndexOfId(Table(kind), id) # 0]
        d == UpdateData(kind, data)
        rows == update(Table(kind), id, d)
    IN  IF fail \/ updateThrows(kind, Table(kind), id, d)
        THEN /\ res' = Failure(req, fail)
             /\ UNCHANGED <<tables, clock, probe, view, inflight, history>>
        ELSE /\ SetTable(kind, rows)
             /\ res' = Success(req, 200,
                               <<View(kind, rows[IndexOfId(Table(kind), id)])>>)
             /\ UNCHANGED <<clock, probe, view, inflight, history>>

\* deleteContact, deleteAccount, deleteActivity, deleteDeal, deleteLead
Delete(handler, kind) ==
  /\ Idle
  /\ Focused(kind)
  /\ \E id \in RequestIds, fail \in BOOLEAN :
    LET req == [Request(handler, kind, id, <<>>, <<>>)
                  EXCEPT !.found = IndexOfId(Table(kind), id) # 0]
    IN  IF fail \/ deleteThrows(Table(kind), id)
        THEN /\ res' = Failure(req, fail)
             /\ UNCHANGED <<tables, clock, probe, view, inflight, history>>
        ELSE /\ SetTable(kind, delete(Table(kind), id))
             /\ res' = Success(req, 200, <<>>)
             /\ UNCHANGED <<clock, probe, view, inflight, history>>

getContacts == List("getContacts", "contact", {"firstName", "lastName", "emailAddress"}, "createdAt")
getContact == GetById("getContact", "contact")
createContact == Create("createContact", "contact", ContactBodies)
updateContact == Update("updateContact", "contact")
deleteContact == Delete("deleteContact", "contact")

getAccounts == List("getAccounts", "account", {"accountName", "industry"}, "createdAt")
getAccount == GetById("getAccount", "account")
createAccount == Create("createAccount", "account", AccountBodies)
updateAccount == Update("updateAccount", "account")
deleteAccount == Delete("deleteAccount", "account")

getActivities == List("getActivities", "activity", {}, "dateTime")
getActivity == GetById("getActivity", "activity")
createActivity == Create("createActivity", "activity", ActivityBodies)
updateActivity == Update("updateActivity", "activity")
deleteActivity == Delete("deleteActivity", "activity")

getDeals == List("getDeals", "deal", {}, "createdAt")
getDeal == GetById("getDeal", "deal")
createDeal == Create("createDeal", "deal", DealBodies)
updateDeal == Update("updateDeal", "deal")
deleteDeal == Delete("deleteDeal", "deal")

getLeads == List("getLeads", "lead", {}, "createdAt")
getLead == GetById("getLead", "lead")
createLead == Create("createLead", "lead", LeadBodies)
updateLead == Update("updateLead", "lead")
deleteLead == Delete("deleteLead", "lead")

ReportBodies ==
  {[reportType |-> <<"a">>, period |-> Undefined, salesRep |-> Undefined,
    geo |-> Undefined, businessLine |-> Undefined],
   [reportType |-> <<"a">>, period |-> <<"p">>, salesRep |-> <<"o">>,
    geo |-> <<"A", "_", "B">>, businessLine |-> <<"b">>],
   [reportType |-> <<"b">>, period |-> <<"q">>, salesRep |-> Undefined,
    geo |-> <<"A">>, businessLine |-> Undefined]}

\* a report counting only the deals of the geo asked for
reportDataFiltered(data, nContacts, nAccounts, nDeals, nActivities, nLeads) ==
  [reportType |-> data.reportType,
   period |-> data.period,
   salesRep |-> data.salesRep,
   geo |-> data.geo,
   businessLine |-> data.businessLine,
   metrics |-> [totalContacts |-> nContacts,
                totalAccounts |-> nAccounts,
                totalDeals |-> IF data.geo = Undefined THEN nDeals
                               ELSE Len(SelectSeq(deals, LAMBDA r : r.geo = data.geo)),
                totalActivities |-> nActivities,
                totalLeads |-> nLeads],
   generatedBy |-> System]

\* reportData: the request's fields echoed, and the five counts
reportDataOf(data, nContacts, nAccounts, nDeals, nActivities, nLeads) ==
  [reportType |-> data.reportType,
   period |-> data.period,
   salesRep |-> data.salesRep,
   geo |-> data.geo,
   businessLine |-> data.businessLine,
   metrics |-> [totalContacts |-> nContacts,
                totalAccounts |-> nAccounts,
                totalDeals |-> nDeals,
                totalActivities |-> nActivities,
                totalLeads |-> nLeads],
   generatedBy |-> System]

generateReport ==
  /\ Idle
  /\ \E data \in ReportBodies, fail \in BOOLEAN :
    LET req == Request("generateReport", "report", Undefined, data, <<>>)
        reportData ==
          reportDataOf(data,
                       count(contacts, {}, Undefined),
                       count(accounts, {}, Undefined),
                       count(deals, {}, Undefined),
                       count(activities, {}, Undefined),
                       count(leads, {}, Undefined))
    IN  /\ res' = IF fail THEN Failure(req, TRUE)
                  ELSE Success(req, 200, <<reportData>>)
        /\ UNCHANGED <<tables, clock, probe, view, inflight, history>>

downloadReport ==
  /\ Idle
  /\ res' = Success(Request("downloadReport", "report", Undefined, <<>>, <<>>), 200, <<>>)
  /\ UNCHANGED <<tables, clock, probe, view, inflight, history>>

getUserProfile == GetById("getUserProfile", "userProfile")

getCurrentUserProfile ==
  /\ Idle
  /\ Focused("userProfile")
  /\ \E fail \in BOOLEAN :
    LET req == Request("getCurrentUserProfile", "userProfile", Undefined, <<>>, <<>>)
        found == findFirst(userProfiles)
        row == NewRow("userProfile", defaultUserProfile, clock + 1)
    IN  IF fail
        THEN /\ res' = Failure(req, TRUE)
             /\ UNCHANGED <<tables, clock, probe, view, inflight, history>>
        ELSE IF found = <<>>
        THEN /\ clock < MaxCreates
             /\ SetTable("userProfile", Append(userProfiles, row))
             /\ clock' = clock + 1
             /\ res' = Success(req, 200, <<userProfileView(row)>>)
             /\ UNCHANGED <<probe, view, inflight, history>>
        ELSE /\ res' = Success(req, 200, <<userProfileView(found[1])>>)
             /\ UNCHANGED <<tables, clock, probe, view, inflight, history>>

updateUserProfile == Update("updateUserProfile", "userProfile")

updateCurrentUserProfile ==
  /\ Idle
  /\ Focused("userProfile")
  /\ \E data \in UserProfileBodies, fail \in BOOLEAN :
    LET req == Request("updateCurrentUserProfile", "userProfile", Undefined, data, <<>>)
        found == findFirst(userProfiles)
        d == userProfileUpdateData(data)
        rows == update(userProfiles, found[1].id, d)
    IN  IF fail
        THEN /\ res' = Failure(req, TRUE)
             /\ UNCHANGED <<tables, clock, probe, view, inflight, history>>
        ELSE IF found = <<>>
        THEN /\ res' = NotFound(req)
             /\ UNCHANGED <<tables, clock, probe, view, inflight, history>>
        ELSE /\ SetTable("userProfile", rows)
             /\ res' = Success(req, 200, <<userProfileView(rows[1])>>)
             /\ UNCHANGED <<clock, probe, view, inflight, history>>

\* the exchange ends once the response has been sent
endResponse ==
  /\ ~Idle
  /\ res' = NoResponse
  /\ UNCHANGED <<tables, clock, probe, view, inflight, history>>

----------------------------------------------------------------------------
(* The system: requests served one after another over an empty store *)

NoProbe == [op |-> "none"]

\* the Accounts view as it mounts: useState("all"), useState(false), useState(null),
\* useState({}); nothing shown and nothing called yet.  opened records what opened
\* the dialog last, and for which account
NoView ==
  [filterType |-> <<"a", "l", "l">>,
   showNewAccountDialog |-> FALSE,
   editingAccount |-> <<>>,
   formData |-> <<>>,
   opened |-> [by |-> "none", id |-> Undefined],
   event |-> "mount",
   alerts |-> <<>>,
   calls |-> <<>>]

Init ==
  /\ contacts = <<>>
  /\ accounts = <<>>
  /\ activities = <<>>
  /\ deals = <<>>
  /\ leads = <<>>
  /\ userProfiles = <<>>
  /\ clock = 0
  /\ res = NoResponse
  /\ probe = NoProbe
  /\ view = NoView
  /\ inflight = <<>>
  /\ history = {}

Next ==
  \/ getContacts \/ getContact \/ createContact \/ updateContact \/ deleteContact
  \/ getAccounts \/ getAccount \/ createAccount \/ updateAccount \/ deleteAccount
  \/ getActivities \/ getActivity \/ createActivity \/ updateActivity \/ deleteActivity
  \/ getDeals \/ getDeal \/ createDeal \/ updateDeal \/ deleteDeal
  \/ getLeads \/ getLead \/ createLead \/ updateLead \/ deleteLead
  \/ generateReport \/ downloadReport
  \/ getUserProfile \/ getCurrentUserProfile \/ updateUserProfile
  \/ updateCurrentUserProfile
  \/ endResponse

Spec == Init /\ [][Next]_vars

----------------------------------------------------------------------------
(* One enum value through the write and read paths.  The probe follows one  *)
(* row of one kind: a create whose body gives one enum field the text inp,  *)
(* then reads of the row, an update with the same text, and the client      *)
(* writing the displayed value back.                                        *)

Chars == {"a", "A", " ", "_"}

Strings(n) == UNION {[1..k -> Chars] : k \in 0..n}

EnumInputs == Strings(MaxLen) \cup {Undefined}

\* the body of a probe: the one enum field, and the activityType a create of an
\* activity cannot do without
ProbeBody(kind, field, x) ==
  Body(kind, IF kind = "activity" /\ field # "activityType"
             THEN (field :> x) @@ [activityType |-> <<"A">>]
             ELSE (field :> x))

\* every enum field of every kind
EnumKeys == UNION {{<<k, f>> : f \in EnumFields(k)} : k \in Kinds}

InitEnum ==
  /\ contacts = <<>>
  /\ accounts = <<>>
  /\ activities = <<>>
  /\ deals = <<>>
  /\ leads = <<>>
  /\ userProfiles = <<>>
  /\ clock = 0
  /\ res = NoResponse
  /\ probe \in {[op |-> "request", kind |-> kf[1], field |-> kf[2], inp |-> x,
                 row |-> <<>>, before |-> Undefined, shown |-> Undefined] :
                  kf \in EnumKeys, x \in EnumInputs}
  /\ view = NoView
  /\ inflight = <<>>
  /\ history = {}

\* the create handler of the probe's kind (getCurrentUserProfile's default for a
\* user profile), and the record it echoes
probeCreate ==
  /\ probe.op = "request"
  /\ LET data == ProbeBody(probe.kind, probe.field, probe.inp)
         row == NewRow(probe.kind, CreateData(probe.kind, data), 1)
     IN  IF probe.kind = "activity" /\ activityDataThrows(data)
         THEN probe' = [probe EXCEPT !.op = "createFailed"]
         ELSE probe' = [probe EXCEPT !.op = "created", !.row = row,
                                     !.shown = View(probe.kind, row)[probe.field]]
  /\ UNCHANGED <<tables, clock, res, view, inflight, history>>

\* the get-by-id handler of the probe's kind
probeGet ==
  /\ probe.op \in {"created", "updated"}
  /\ probe' = [probe EXCEPT !.op = IF probe.op = "created" THEN "read" ELSE "readUpdated",
                            !.shown = View(probe.kind, probe.row)[probe.field]]
  /\ UNCHANGED <<tables, clock, res, view, inflight, history>>

\* the update handler of the probe's kind, with the text the create was given
probeUpdate ==
  /\ probe.op = "created"
  /\ LET data == Body(probe.kind, probe.field :> probe.inp)
         row == UpdatedRow(probe.row, UpdateData(probe.kind, data))
     IN  probe' = [probe EXCEPT !.op = "updated", !.row = row,
                                !.before = probe.row[probe.field],
                                !.shown = View(probe.kind, row)[probe.field]]
  /\ UNCHANGED <<tables, clock, res, view, inflight, history>>

\* the client sends the value it was shown back through the update handler
probeResubmitUpdate ==
  /\ probe.op \in {"read", "readUpdated"}
  /\ LET data == Body(probe.kind, probe.field :> probe.shown)
         row == UpdatedRow(probe.row, UpdateData(probe.kind, data))
     IN  probe' = [probe EXCEPT !.op = "resubmittedUpdate", !.row = row,
                                !.before = probe.row[probe.field]]
  /\ UNCHANGED <<tables, clock, res, view, inflight, history>>

\* the client sends the value it was shown to the create handler
probeResubmitCreate ==
  /\ probe.op = "read"
  /\ probe.kind # "userProfile"
  /\ LET data == ProbeBody(probe.kind, probe.field, probe.shown)
         row == NewRow(probe.kind, CreateData(probe.kind, data), 2)
     IN  /\ ~(probe.kind = "activity" /\ activityDataThrows(data))
         /\ probe' = [probe EXCEPT !.op = "resubmittedCreate", !.row = row,
                                   !.before = probe.row[probe.field]]
  /\ UNCHANGED <<tables, clock, res, view, inflight, history>>

NextEnum ==
  \/ probeCreate \/ probeGet \/ probeUpdate
  \/ probeResubmitUpdate \/ probeResubmitCreate

SpecEnum == InitEnum /\ [][NextEnum]_vars

----------------------------------------------------------------------------
(* One combined name through createContact and createLead.  The probe is a  *)
(* create whose body carries the text name and the explicit parts.          *)

ExplicitFirstNames == {Undefined, <<>>, <<"E", "d">>}

ExplicitLastNames == {Undefined, <<"D", " ", "e">>}

InitName ==
  /\ contacts = <<>>
  /\ accounts = <<>>
  /\ activities = <<>>
  /\ deals = <<>>
  /\ leads = <<>>
  /\ userProfiles = <<>>
  /\ clock = 0
  /\ res = NoResponse
  /\ probe \in {[op |-> "nameRequest", kind |-> k, name |-> n,
                 firstName |-> f, lastName |-> l, row |-> <<>>] :
                  k \in {"contact", "lead"}, n \in Strings(MaxLen) \cup {Undefined},
                  f \in ExplicitFirstNames, l \in ExplicitLastNames}
  /\ view = NoView
  /\ inflight = <<>>
  /\ history = {}

\* createContact / createLead on the probe's body: the row the store is given
probeCreateNamed ==
  /\ probe.op = "nameRequest"
  /\ LET data == Body(probe.kind, [name |-> probe.name,
                                   firstName |-> probe.firstName,
                                   lastName |-> probe.lastName])
     IN  probe' = [probe EXCEPT !.op = "named",
                                !.row = NewRow(probe.kind, CreateData(probe.kind, data), 1)]
  /\ UNCHANGED <<tables, clock, res, view, inflight, history>>

NextName == probeCreateNamed

SpecName == InitName /\ [][NextName]_vars

----------------------------------------------------------------------------
(* One lead source through createLead.  The probe is the text of the source, *)
(* sent first in the leadSource field of a body and then in its source field *)
(* (the other field absent, or given as the empty string).                   *)

InitSource ==
  /\ contacts = <<>>
  /\ accounts = <<>>
  /\ activities = <<>>
  /\ deals = <<>>
  /\ leads = <<>>
  /\ userProfiles = <<>>
  /\ clock = 0
  /\ res = NoResponse
  /\ probe \in {[op |-> "sourceRequest", inp |-> x, other |-> o,
                 row |-> <<>>, before |-> Undefined] :
                  x \in EnumInputs, o \in {Undefined, <<>>}}
  /\ view = NoView
  /\ inflight = <<>>
  /\ history = {}

\* createLead on a body giving the text as leadSource: the row the store is given
probeCreateLeadSource ==
  /\ probe.op = "sourceRequest"
  /\ LET data == Body("lead", [name |-> <<"A", "b">>,
                               leadSource |-> probe.inp, source |-> probe.other])
     IN  probe' = [probe EXCEPT !.op = "sourcedLeadSource",
                                !.row = NewRow("lead", CreateData("lead", data), 1)]
  /\ UNCHANGED <<tables, clock, res, view, inflight, history>>

\* createLead on a body giving the same text as source
probeCreateSource ==
  /\ probe.op = "sourcedLeadSource"
  /\ LET data == Body("lead", [name |-> <<"A", "b">>,
                               source |-> probe.inp, leadSource |-> probe.other])
     IN  probe' = [probe EXCEPT !.op = "sourcedSource",
                                !.before = probe.row.leadSource,
                                !.row = NewRow("lead", CreateData("lead", data), 2)]
  /\ UNCHANGED <<tables, clock, res, view, inflight, history>>

NextSource == probeCreateLeadSource \/ probeCreateSource

SpecSource == InitSource /\ [][NextSource]_vars

----------------------------------------------------------------------------
(* Handlers running concurrently.  Each invocation is an async function: it *)
(* runs up to its next await, the store executes the awaited call at some   *)
(* later moment, and the invocation resumes.  The store executes one call   *)
(* at a time; calls of different invocations interleave freely.             *)

\* handler invocations in one behaviour
MaxCalls == 3

\* the numbers of rows of the five tables the report counts
Counts == <<Len(contacts), Len(accounts), Len(deals), Len(activities), Len(leads)>>

\* the requests that run together: creates of a contact and of an account, updates
\* and a delete of the first record the store holds, a report, and a read and an
\* update of the current user's profile
ConcRequests ==
  <<[handler |-> "createContact", kind |-> "contact", id |-> Undefined,
     body |-> Body("contact", [name |-> <<"A", "b", " ", "C", "d">>])],
    [handler |-> "createAccount", kind |-> "account", id |-> Undefined,
     body |-> Body("account", [accountName |-> <<"A", "b">>, industry |-> <<"E", "d">>])],
    [handler |-> "updateAccount", kind |-> "account", id |-> IdOf(1),
     body |-> Body("account", [accountName |-> <<"C", "d">>, status |-> <<"A", " ", "B">>])],
    [handler |-> "updateAccount", kind |-> "account", id |-> IdOf(1),
     body |-> Body("account", [accountName |-> <<"E">>, accountRating |-> <<"a">>])],
    [handler |-> "deleteAccount", kind |-> "account", id |-> IdOf(1), body |-> <<>>],
    [handler |-> "generateReport", kind |-> "report", id |-> Undefined,
     body |-> [reportType |-> <<"a">>, period |-> Undefined, salesRep |-> Undefined,
               geo |-> Undefined, businessLine |-> Undefined]],
    [handler |-> "getCurrentUserProfile", kind |-> "userProfile", id |-> Undefined,
     body |-> <<>>],
    [handler |-> "updateCurrentUserProfile", kind |-> "userProfile", id |-> Undefined,
     body |-> Body("userProfile", [firstName |-> <<"E", "d">>])]>>

\* the requests in flight together, in the order of ConcRequests (the order in which
\* requests that have not reached the store yet arrived does not matter)
Arrivals ==
  {ix \in [1..MaxCalls -> 1..Len(ConcRequests)] :
     \A k \in 1..(MaxCalls - 1) : ix[k] <= ix[k + 1]}

\* the handlers that look for the first profile before they write
CurrentProfileHandlers == {"getCurrentUserProfile", "updateCurrentUserProfile"}

\* an invocation as it starts: at its first store call
Invocation(r) ==
  [handler |-> r.handler, kind |-> r.kind, id |-> r.id, body |-> r.body,
   pc |-> IF r.handler \in CurrentProfileHandlers THEN "find" ELSE "call", found |-> FALSE, storeFailed |-> FALSE, threw |-> FALSE,
   applied |-> 0, row |-> <<>>, counts |-> <<>>,
   arrivedAt |-> Counts, status |-> 0, success |-> FALSE, data |-> <<>>]

\* how many store writes have been applied so far
Applied == Cardinality({j \in 1..Len(inflight) : inflight[j].applied > 0})

InitConc ==
  /\ contacts = <<>>
  /\ accounts = <<>>
  /\ activities = <<>>
  /\ deals = <<>>
  /\ leads = <<>>
  /\ userProfiles = <<>>
  /\ clock = 0
  /\ res = NoResponse
  /\ probe = NoProbe
  /\ view = NoView
  /\ inflight \in {[k \in 1..MaxCalls |-> Invocation(ConcRequests[ix[k]])] : ix \in Arrivals}
  /\ history = {Counts}

\* await prisma.userProfile.findFirst() of invocation i: the read goes on to create
\* the default profile when there is none, the update answers 404 then
storeFindFirst(i) ==
  LET c == inflight[i]
      found == findFirst(userProfiles)
  IN  /\ c.pc = "find"
      /\ c.handler \in CurrentProfileHandlers
      /\ inflight' = [inflight EXCEPT
           ![i].found = found # <<>>,
           ![i].id = IF found # <<>> THEN found[1].id ELSE c.id,
           ![i].row = IF c.handler = "getCurrentUserProfile" THEN found ELSE <<>>,
           ![i].pc = IF c.handler = "getCurrentUserProfile"
                     THEN (IF found # <<>> THEN "respond" ELSE "call")
                     ELSE (IF found # <<>> THEN "call" ELSE "respond")]
      /\ UNCHANGED <<tables, clock, res, probe, view, history>>

\* await prisma.<model>.create({ data }) of invocation i
storeCreate(i) ==
  LET c == inflight[i]
      d == CreateData(c.kind, c.body)
      row == NewRow(c.kind, d, clock + 1)
  IN  /\ c.pc = "call"
      /\ c.handler \in {"createContact", "createAccount", "getCurrentUserProfile"}
      /\ IF createThrows(c.kind, Table(c.kind), d)
         THEN /\ inflight' = [inflight EXCEPT ![i].pc = "respond", ![i].threw = TRUE]
              /\ UNCHANGED <<tables, clock, history>>
         ELSE /\ clock < MaxCreates
              /\ SetTable(c.kind, Append(Table(c.kind), row))
              /\ clock' = clock + 1
              /\ inflight' = [inflight EXCEPT ![i].pc = "respond",
                                              ![i].applied = Applied + 1,
                                              ![i].row = <<row>>]
              /\ history' = history \cup {Counts'}
      /\ UNCHANGED <<res, probe, view>>

\* await prisma.<model>.update({ where: { id }, data }) of invocation i
storeUpdate(i) ==
  LET c == inflight[i]
      d == UpdateData(c.kind, c.body)
      rows == update(Table(c.kind), c.id, d)
  IN  /\ c.pc = "call"
      /\ c.handler \in {"updateAccount", "updateCurrentUserProfile"}
      /\ \E fail \in BOOLEAN :
           IF fail \/ updateThrows(c.kind, Table(c.kind), c.id, d)
           THEN /\ inflight' = [inflight EXCEPT
                                  ![i].pc = "respond",
                                  ![i].found = IndexOfId(Table(c.kind), c.id) # 0,
                                  ![i].storeFailed = fail,
                                  ![i].threw = TRUE]
                /\ UNCHANGED <<tables, history>>
           ELSE /\ SetTable(c.kind, rows)
                /\ inflight' = [inflight EXCEPT
                                  ![i].pc = "respond",
                                  ![i].found = TRUE,
                                  ![i].applied = Applied + 1,
                                  ![i].row = <<rows[IndexOfId(Table(c.kind), c.id)]>>]
                /\ history' = history \cup {Counts'}
      /\ UNCHANGED <<clock, res, probe, view>>

\* await prisma.<model>.delete({ where: { id } }) of invocation i
storeDelete(i) ==
  LET c == inflight[i]
  IN  /\ c.pc = "call"
      /\ c.handler \in {"deleteContact", "deleteAccount"}
      /\ IF deleteThrows(Table(c.kind), c.id)
         THEN /\ inflight' = [inflight EXCEPT ![i].pc = "respond", ![i].threw = TRUE]
              /\ UNCHANGED <<tables, history>>
         ELSE /\ SetTable(c.kind, delete(Table(c.kind), c.id))
              /\ inflight' = [inflight EXCEPT ![i].pc = "respond",
                                              ![i].applied = Applied + 1]
              /\ history' = history \cup {Counts'}
      /\ UNCHANGED <<clock, res, probe, view>>

\* the table generateReport counts with its n-th await
ReportTable(n) ==
  CASE n = 1 -> contacts
    [] n = 2 -> accounts
    [] n = 3 -> deals
    [] n = 4 -> activities
    [] n = 5 -> leads

\* a count answered from the state the store was in when the request arrived
reportCountSnapshot(c, n) == c.arrivedAt[n]

\* the n-th count of generateReport: await prisma.<model>.count()
reportCount(c, n) == count(ReportTable(n), {}, Undefined)

\* the next count of the report of invocation i
storeCount(i) ==
  LET c == inflight[i]
      n == Len(c.counts) + 1
  IN  /\ c.pc = "call"
      /\ c.handler = "generateReport"
      /\ inflight' = [inflight EXCEPT
                        ![i].counts = Append(@, reportCount(c, n)),
                        ![i].pc = IF n = 5 THEN "respond" ELSE "call"]
      /\ UNCHANGED <<tables, clock, res, probe, view, history>>

\* invocation i resumes after its last await and sends its response
respond(i) ==
  LET c == inflight[i]
  IN  /\ c.pc = "respond"
      /\ inflight' = [inflight EXCEPT
           ![i].pc = "done",
           ![i].status = IF c.threw THEN 500
                         ELSE IF c.handler = "updateCurrentUserProfile" /\ ~c.found
                         THEN 404
                         ELSE IF c.handler \in {"createContact", "createAccount"} THEN 201
                         ELSE 200,
           ![i].success = ~c.threw /\ ~(c.handler = "updateCurrentUserProfile" /\ ~c.found),
           ![i].data = IF c.threw THEN <<>>
                       ELSE IF c.handler = "generateReport"
                       THEN <<reportDataOf(c.body, c.counts[1], c.counts[2], c.counts[3],
                                           c.counts[4], c.counts[5])>>
                       ELSE IF c.row = <<>> THEN <<>>
                       ELSE <<View(c.kind, c.row[1])>>]
      /\ UNCHANGED <<tables, clock, res, probe, view, history>>

NextConc ==
  \E i \in 1..Len(inflight) :
       \/ storeFindFirst(i)
       \/ storeCreate(i) \/ storeUpdate(i) \/ storeDelete(i) \/ storeCount(i)
       \/ respond(i)

SpecConc == InitConc /\ [][NextConc]_vars

----------------------------------------------------------------------------
(* The Accounts view.  view holds the React state of CRMAccounts; event,    *)
(* alerts and calls record the last user event handled, the alerts it       *)
(* showed and the store calls (addAccount, updateAccount, deleteAccount of  *)
(* the CRM context) it made.                                                *)

\* obj.f of a JavaScript object
Get(obj, f) == IF f \in DOMAIN obj THEN obj[f] ELSE Undefined

Bronze == <<"B", "R", "O", "N", "Z", "E">>
Prospect == <<"P", "R", "O", "S", "P", "E", "C", "T">>

\* the choices of the industry and rating selects, and texts typed as a name
industries == {<<"T", "e", "c", "h">>}
ratings == {<<"G", "O", "L", "D">>}
TypedNames == {<<>>, <<"A", "b">>}

\* the account statuses, as stored
Suspect == <<"S", "U", "S", "P", "E", "C", "T">>
ActiveDeal == <<"A", "C", "T", "I", "V", "E", "_", "D", "E", "A", "L">>
DoNotCall == <<"D", "O", "_", "N", "O", "T", "_", "C", "A", "L", "L">>
AccountStatuses == {Suspect, Prospect, ActiveDeal, DoNotCall}

\* the choices of the filter menu: "all" and the statuses in lower case
FilterTypes == {<<"a", "l", "l">>} \cup {toLowerCase(st) : st \in AccountStatuses}

\* a store call either returns or throws
CallOutcomes == {"ok", "throws"}

\* the accounts the CRM context hands to the view: the stored accounts as the
\* accounts endpoints return them
clientAccounts == [i \in 1..Len(accounts) |-> accountView(accounts[i])]

\* filteredAccounts: the accounts the table of the view shows
filteredAccounts ==
  SelectSeq(clientAccounts,
            LAMBDA account :
              \/ view.filterType = <<"a", "l", "l">>
              \/ Truthy(account.status) /\ toLowerCase(account.status) = view.filterType)

\* the required fields checked with only the name
missingRequiredNameOnly(formData) == ~Truthy(Get(formData, "accountName"))

\* !formData.accountName || !formData.industry
missingRequired(formData) ==
  ~Truthy(Get(formData, "accountName")) \/ ~Truthy(Get(formData, "industry"))

\* newAccountData of handleSaveAccount
newAccountData(formData) ==
  [accountName |-> Or(Get(formData, "accountName"), <<>>),
   industry |-> Or(Get(formData, "industry"), <<>>),
   accountRating |-> Or(Get(formData, "accountRating"), Bronze),
   status |-> Or(Get(formData, "status"), Prospect),
   createdBy |-> CurrentUser,
   updatedBy |-> CurrentUser]

\* a save that always creates
saveCallAlwaysAdd(outcome) ==
  [op |-> "addAccount", id |-> Undefined,
   payload |-> newAccountData(view.formData), outcome |-> outcome]

\* the store call the save of the form makes
saveCall(outcome) ==
  IF view.editingAccount # <<>>
  THEN [op |-> "updateAccount", id |-> view.editingAccount[1].id,
        payload |-> view.formData, outcome |-> outcome]
  ELSE [op |-> "addAccount", id |-> Undefined,
        payload |-> newAccountData(view.formData), outcome |-> outcome]

\* the accounts endpoint a store call reaches, on the stored accounts
callThrows(call) ==
  CASE call.op = "addAccount" ->
         createThrows("account", accounts, accountData(Body("account", call.payload)))
    [] call.op = "updateAccount" ->
         updateThrows("account", accounts, call.id,
                      accountUpdateData(Body("account", call.payload)))
    [] call.op = "deleteAccount" -> deleteThrows(accounts, call.id)

callEffect(call) ==
  IF call.outcome # "ok" THEN UNCHANGED <<tables, clock>>
  ELSE CASE call.op = "addAccount" ->
              /\ SetTable("account",
                          Append(accounts,
                                 NewRow("account",
                                        accountData(Body("account", call.payload)),
                                        clock + 1)))
              /\ clock' = clock + 1
         [] call.op = "updateAccount" ->
              /\ SetTable("account",
                          update(accounts, call.id,
                                 accountUpdateData(Body("account", call.payload))))
              /\ UNCHANGED clock
         [] call.op = "deleteAccount" ->
              /\ SetTable("account", delete(accounts, call.id))
              /\ UNCHANGED clock

\* a reset that forgets to clear the account being edited
resetFormKeepsEditing(v) ==
  [v EXCEPT !.formData = <<>>, !.showNewAccountDialog = FALSE]

\* resetForm
resetForm(v) ==
  [v EXCEPT !.formData = <<>>, !.editingAccount = <<>>, !.showNewAccountDialog = FALSE]

Handled(v, event, alerts, calls) ==
  [v EXCEPT !.event = event, !.alerts = alerts, !.calls = calls]

InitView ==
  /\ contacts = <<>>
  /\ accounts = <<>>
  /\ activities = <<>>
  /\ deals = <<>>
  /\ leads = <<>>
  /\ userProfiles = <<>>
  /\ clock = 0
  /\ res = NoResponse
  /\ probe = NoProbe
  /\ view = NoView
  /\ inflight = <<>>
  /\ history = {}

\* a triggerNewItem event reaches the window
handleTriggerNewItem ==
  /\ \E type \in {"accounts", "contacts"} :
       view' = IF type = "accounts"
               THEN Handled([resetForm(view) EXCEPT
                               !.showNewAccountDialog = TRUE,
                               !.opened = [by |-> "triggerNewItem", id |-> Undefined]],
                            "triggerNewItem", <<>>, <<>>)
               ELSE Handled(view, "triggerOther", <<>>, <<>>)
  /\ UNCHANGED <<tables, clock, res, probe, inflight, history>>

\* the New Account button: its onClick resets the form, the dialog trigger opens
\* the dialog
clickNewAccount ==
  /\ ~view.showNewAccountDialog
  /\ view' = Handled([resetForm(view) EXCEPT
                        !.showNewAccountDialog = TRUE,
                        !.opened = [by |-> "newAccount", id |-> Undefined]],
                     "newAccount", <<>>, <<>>)
  /\ UNCHANGED <<tables, clock, res, probe, inflight, history>>

\* an input or select of the open dialog changes: setFormData({ ...formData, f: v })
changeField ==
  /\ view.showNewAccountDialog
  /\ \E fv \in ({"accountName"} \X TypedNames) \cup ({"industry"} \X industries)
                 \cup ({"accountRating"} \X ratings) :
       view' = Handled([view EXCEPT !.formData = Spread(@, fv[1] :> fv[2])],
                       "change", <<>>, <<>>)
  /\ UNCHANGED <<tables, clock, res, probe, inflight, history>>

\* the Save button: disabled while a required field is missing, handleSaveAccount
\* otherwise
clickSave ==
  /\ view.showNewAccountDialog
  /\ \E outcome \in CallOutcomes :
       LET call == saveCall(outcome)
           success == IF view.editingAccount # <<>> THEN "updated" ELSE "created"
       IN  IF missingRequired(view.formData)
           THEN /\ view' = Handled(view, "save", <<>>, <<>>)
                /\ UNCHANGED <<tables, clock>>
           ELSE /\ outcome = "ok" => ~callThrows(call)
                /\ (outcome = "ok" /\ call.op = "addAccount") => clock < MaxCreates
                /\ callEffect(call)
                /\ view' = IF outcome = "throws"
                           THEN Handled(view, "save", <<"error">>, <<call>>)
                           ELSE Handled(resetForm(view), "save", <<success>>, <<call>>)
  /\ UNCHANGED <<res, probe, inflight, history>>

\* the Cancel button
clickCancel ==
  /\ view.showNewAccountDialog
  /\ view' = Handled(resetForm(view), "cancel", <<>>, <<>>)
  /\ UNCHANGED <<tables, clock, res, probe, inflight, history>>

\* the dialog dismissed (Escape, outside click): onOpenChange(false)
dismissDialog ==
  /\ view.showNewAccountDialog
  /\ view' = Handled([view EXCEPT !.showNewAccountDialog = FALSE], "dismiss", <<>>, <<>>)
  /\ UNCHANGED <<tables, clock, res, probe, inflight, history>>

\* Edit in the row menu of a listed account
handleEditAccount ==
  /\ ~view.showNewAccountDialog
  /\ \E i \in 1..Len(clientAccounts) :
       view' = Handled([view EXCEPT !.editingAccount = <<clientAccounts[i]>>,
                                    !.formData = clientAccounts[i],
                                    !.showNewAccountDialog = TRUE,
                                    !.opened = [by |-> "edit", id |-> clientAccounts[i].id]],
                       "edit", <<>>, <<>>)
  /\ UNCHANGED <<tables, clock, res, probe, inflight, history>>

\* Delete in the row menu of a listed account, confirmed or not
handleDeleteAccount ==
  /\ ~view.showNewAccountDialog
  /\ \E i \in 1..Len(clientAccounts), confirmed \in BOOLEAN, outcome \in CallOutcomes :
       LET call == [op |-> "deleteAccount", id |-> clientAccounts[i].id,
                    payload |-> <<>>, outcome |-> outcome]
       IN  IF ~confirmed
           THEN /\ view' = Handled(view, "delete", <<>>, <<>>)
                /\ UNCHANGED <<tables, clock>>
           ELSE /\ outcome = "ok" => ~callThrows(call)
                /\ callEffect(call)
                /\ view' = Handled(view, "delete",
                                   IF outcome = "throws" THEN <<>> ELSE <<"deleted">>,
                                   <<call>>)
  /\ UNCHANGED <<res, probe, inflight, history>>

\* an item of the filter menu: setFilterType
setFilterType ==
  /\ \E type \in FilterTypes :
       view' = Handled([view EXCEPT !.filterType = type], "filter", <<>>, <<>>)
  /\ UNCHANGED <<tables, clock, res, probe, inflight, history>>

\* createAccount serving another client: an account of some status enters the
\* store, and the context's accounts with it
createAccountElsewhere ==
  /\ clock < MaxCreates
  /\ \E status \in AccountStatuses :
       LET data == Body("account", [accountName |-> <<"C", "d">>,
                                    industry |-> <<"E", "d">>,
                                    status |-> status])
       IN  /\ ~createThrows("account", accounts, accountData(data))
           /\ SetTable("account",
                       Append(accounts, NewRow("account", accountData(data), clock + 1)))
  /\ clock' = clock + 1
  /\ view' = Handled(view, "accountsChanged", <<>>, <<>>)
  /\ UNCHANGED <<res, probe, inflight, history>>

NextView ==
  \/ handleTriggerNewItem \/ clickNewAccount \/ changeField \/ clickSave
  \/ clickCancel \/ dismissDialog \/ handleEditAccount \/ handleDeleteAccount

SpecView == InitView /\ [][NextView]_vars

\* the table of the view under its filter, over accounts of every status
NextFilter == setFilterType \/ createAccountElsewhere

SpecFilter == InitView /\ [][NextFilter]_vars

----------------------------------------------------------------------------
(* Properties of the enum write and read paths (under SpecEnum) *)

\* the spec's toStorage: uppercase, every run of whitespace one underscore
toStorage(x) == toUpperCase(replaceWhitespaceRuns(x))

HasChar(x, c) == \E i \in 1..Len(x) : x[i] = c
CountChar(x, c) == Cardinality({i \in 1..Len(x) : x[i] = c})
NoLowercase(x) == \A i \in 1..Len(x) : \A j \in 1..26 : x[i] # Lowers[j]
OnlyUpperAndUnderscore(x) ==
  \A i \in 1..Len(x) : x[i] = "_" \/ \E j \in 1..26 : x[i] = Uppers[j]

\* upper-snake-case: uppercase words joined by single underscores
UpperSnake(x) ==
  /\ Truthy(x)
  /\ OnlyUpperAndUnderscore(x)
  /\ x[1] # "_" /\ x[Len(x)] # "_"
  /\ \A i \in 1..(Len(x) - 1) : ~(x[i] = "_" /\ x[i + 1] = "_")

\* the probe's field was written from the body text inp by the last write
WrittenFromInput ==
  /\ probe.op \in {"created", "updated"}
  /\ Truthy(probe.inp)
  /\ probe.kind = "userProfile" => probe.op = "updated"

\* C6 (as claimed): on every create and update each enum field given in the body is
\* stored as the body text uppercased with every run of whitespace replaced by one
\* underscore, so it holds no whitespace, and create and update store the same
\* value for the same text.
C6_StoredCanonical ==
  WrittenFromInput =>
    /\ probe.row[probe.field] = toStorage(probe.inp)
    /\ ~HasChar(probe.row[probe.field], " ")
    /\ (probe.op = "updated" /\ probe.kind # "userProfile")
         => probe.row[probe.field] = probe.before

\* C7 (as claimed): on every read path an enum field stored in upper-snake-case
\* is shown without any underscore.
C7_ShownWithoutUnderscore ==
  (probe.op \in {"created", "read", "updated", "readUpdated"}
     /\ UpperSnake(probe.row[probe.field]))
    => ~HasChar(probe.shown, "_")

\* a single word, or uppercase text with one single space (no underscore: the text
\* is a display value)
SingleWord(x) == Truthy(x) /\ ~HasChar(x, " ") /\ ~HasChar(x, "_")
UpperSingleSpace(x) ==
  Truthy(x) /\ NoLowercase(x) /\ CountChar(x, " ") = 1 /\ ~HasChar(x, "_")

CreatedThenRead == probe.op = "read" /\ probe.kind # "userProfile"

\* C8 (as claimed): create then get-by-id shows, for every enum field, the text that
\* was submitted, for single-word or uppercase-with-single-space texts.
C8_RoundTripAsClaimed ==
  (CreatedThenRead /\ (SingleWord(probe.inp) \/ UpperSingleSpace(probe.inp)))
    => probe.shown = probe.inp

\* C8 (amended): create then get-by-id shows, for every enum field, the text that
\* was submitted, for texts without lowercase letters and without underscores that
\* are a single word or hold one single space.
C8_RoundTripUppercase ==
  (CreatedThenRead /\ NoLowercase(probe.inp)
     /\ (SingleWord(probe.inp) \/ UpperSingleSpace(probe.inp)))
    => probe.shown = probe.inp

C8_Witness ==
  /\ CreatedThenRead
  /\ probe.kind = "deal" /\ probe.field = "geo"
  /\ probe.inp = <<"A", " ", "A">>
  /\ probe.row.geo = <<"A", "_", "A">>
  /\ probe.shown = <<"A", " ", "A">>

UpperSingleUnderscore(x) ==
  Truthy(x) /\ OnlyUpperAndUnderscore(x) /\ CountChar(x, "_") = 1

\* C9: for every enum field and every stored value x that is all uppercase with a
\* single underscore, writing back what the read path shows for x, through the
\* update handler or through the create handler, stores x again.
C9_StorageOfDisplay ==
  (probe.op \in {"resubmittedUpdate", "resubmittedCreate"}
     /\ UpperSingleUnderscore(probe.before))
    => probe.row[probe.field] = probe.before

C9_Witness ==
  /\ probe.op = "resubmittedUpdate"
  /\ probe.kind = "lead" /\ probe.field = "status"
  /\ probe.before = <<"A", "_", "A">>
  /\ probe.shown = <<"A", " ", "A">>
  /\ probe.row.status = <<"A", "_", "A">>

----------------------------------------------------------------------------
(* Properties of the name mapping (under SpecName) *)

Named == probe.op = "named"

\* C11: a contact or lead created with a combined name and no explicit first or
\* last name is stored with firstName the text of name before its first space and
\* lastName the text after it (the remaining pieces with their single spaces); an
\* explicit (non-empty) firstName or lastName is stored as given; without a name
\* and without explicit parts both are the empty string.
C11_NameSplit ==
  Named =>
    /\ (Truthy(probe.name) /\ ~Truthy(probe.firstName) /\ ~Truthy(probe.lastName)) =>
         /\ ~HasChar(probe.row.firstName, " ")
         /\ IF HasChar(probe.name, " ")
            THEN probe.name = probe.row.firstName \o <<" ">> \o probe.row.lastName
            ELSE probe.name = probe.row.firstName /\ probe.row.lastName = <<>>
    /\ Truthy(probe.firstName) => probe.row.firstName = probe.firstName
    /\ Truthy(probe.lastName) => probe.row.lastName = probe.lastName
    /\ (~Truthy(probe.name) /\ ~Truthy(probe.firstName) /\ ~Truthy(probe.lastName)) =>
         (probe.row.firstName = <<>> /\ probe.row.lastName = <<>>)

C11_Witness ==
  /\ Named
  /\ probe.kind = "lead"
  /\ probe.name = <<"A", " ", "a", " ", "A">>
  /\ probe.firstName = Undefined /\ probe.lastName = Undefined
  /\ probe.row.firstName = <<"A">>
  /\ probe.row.lastName = <<"a", " ", "A">>

----------------------------------------------------------------------------
(* Properties of the lead source (under SpecSource) *)

\* C21: creating a lead stores the same canonical leadSource (the text uppercased,
\* every run of whitespace one underscore) whether the text arrives in the
\* leadSource field or in the alternate source field; with neither given (absent
\* or empty) leadSource is not set.
C21_LeadSource ==
  /\ probe.op \in {"sourcedLeadSource", "sourcedSource"} =>
       probe.row.leadSource = IF Truthy(probe.inp) THEN toStorage(probe.inp)
                              ELSE Undefined
  /\ probe.op = "sourcedSource" => probe.row.leadSource = probe.before

C21_Witness ==
  /\ probe.op = "sourcedSource"
  /\ probe.inp = <<"a", " ", " ", "A">>
  /\ probe.before = <<"A", "_", "A">>
  /\ probe.row.leadSource = <<"A", "_", "A">>
  /\ probe.row.id = IdOf(2)

----------------------------------------------------------------------------
(* Properties of the handlers (under Spec) *)

GetHandlers ==
  {"getContact", "getAccount", "getActivity", "getDeal", "getLead", "getUserProfile"}
ListHandlers ==
  {"getContacts", "getAccounts", "getActivities", "getDeals", "getLeads"}
UpdateDeleteHandlers ==
  {"updateContact", "updateAccount", "updateActivity", "updateDeal", "updateLead",
   "deleteContact", "deleteAccount", "deleteActivity", "deleteDeal", "deleteLead"}

\* the stored rows of the kind with the id
RowsWithId(kind, id) ==
  {i \in 1..Len(Table(kind)) : Table(kind)[i].id = id}

\* C1 (as claimed): an update or a delete of a contact, account, activity, deal or
\* lead whose id matches no stored record is answered with status 404 and
\* success:false.
C1_MissIs404 ==
  (res.handler \in UpdateDeleteHandlers /\ ~res.found /\ ~res.storeFailed)
    => (res.status = 404 /\ res.success = FALSE)

\* the response of a get-by-id whose store call did not fail: 200, success and the
\* record when a row has the id, 404 and no success when none has
C2_Response ==
  (res.handler \in GetHandlers /\ ~res.storeFailed) =>
    IF RowsWithId(res.kind, res.id) # {}
    THEN /\ res.status = 200 /\ res.success = TRUE
         /\ Len(res.data) = 1
         /\ res.data[1].id = res.id
         /\ \A i \in RowsWithId(res.kind, res.id) :
              \A f \in Columns(res.kind) \ EnumFields(res.kind) :
                res.data[1][f] = Table(res.kind)[i][f]
    ELSE /\ res.status = 404 /\ res.success = FALSE
         /\ res.data = <<>>

\* a get-by-id leaves every table as it was
C2_Frame == res'.handler \in GetHandlers => tables' = tables

\* C2: get-by-id of a contact, account, activity, deal, lead or user profile
\* answers 200 with success:true and the record when a record with the id is
\* stored, 404 with success:false when none is (the store call itself not
\* failing), and never changes the store.
C2_GetById == []C2_Response /\ [][C2_Frame]_vars

C2_Witness ==
  /\ res.handler = "getDeal"
  /\ Len(deals) = 2
  /\ res.id = deals[2].id
  /\ res.status = 200
  /\ res.data[1].dealName = deals[2].dealName

\* the fields a list searches, by handler
SearchFields(handler) ==
  CASE handler = "getContacts" -> {"firstName", "lastName", "emailAddress"}
    [] handler = "getAccounts" -> {"accountName", "industry"}
    [] OTHER -> {}

SameLetter(c, d) == c = d \/ UpperOf(c) = d \/ c = UpperOf(d)

\* term occurs in text, letter case ignored
OccursIgnoringCase(text, term) ==
  /\ text # Undefined
  /\ \E i \in 0..(Len(text) - Len(term)) :
       \A j \in 1..Len(term) : SameLetter(text[i + j], term[j])

\* the row is one the list request of res asks for
Wanted(row) ==
  IF SearchFields(res.handler) # {} /\ Truthy(res.query.search)
  THEN \E f \in SearchFields(res.handler) : OccursIgnoringCase(row[f], res.query.search)
  ELSE TRUE

WantedRows == {i \in 1..Len(Table(res.kind)) : Wanted(Table(res.kind)[i])}

ListServed == res.handler \in ListHandlers /\ ~res.storeFailed

\* C3: a list request with page >= 1 and limit >= 1 answers with at most limit
\* items, pagination.total the number of stored records matching the filter of
\* the items, and pagination.totalPages = ceil(total / limit).
C3_Pagination ==
  (ListServed /\ res.page >= 1 /\ res.limit >= 1) =>
    /\ res.success = TRUE
    /\ Len(res.data) <= res.limit
    /\ res.total = Cardinality(WantedRows)
    /\ res.totalPages * res.limit >= res.total
    /\ (res.totalPages - 1) * res.limit < res.total
    /\ res.totalPages >= 0

C3_Witness ==
  /\ res.handler = "getAccounts"
  /\ res.query.page = <<"2">> /\ res.query.limit = <<"1">>
  /\ Len(accounts) = 2
  /\ Len(res.data) = 1
  /\ res.total = 2 /\ res.totalPages = 2

\* C4 (as claimed): whatever the page and limit parameters are, a list handler
\* passes the store a skip that is not negative and a take that is at least 1,
\* and answers with a success envelope.
C4_ParametersFallBack ==
  ListServed => (res.skip >= 0 /\ res.take >= 1 /\ res.success = TRUE)

\* C5: a list of accounts or contacts with a search term holds only records one
\* of whose searched fields contains the term, letter case ignored, and the
\* records of the requested page among all of those; without a search term no
\* record is filtered out.
C5_Search ==
  (ListServed /\ res.success) =>
    /\ \A k \in 1..Len(res.data) :
         \E i \in WantedRows : Table(res.kind)[i].id = res.data[k].id
    /\ res.total = Cardinality(WantedRows)
    /\ (res.page >= 1 /\ res.limit >= 1) =>
         \/ Len(res.data) = res.limit
         \/ Len(res.data) = Cardinality(WantedRows) - res.skip
         \/ (Len(res.data) = 0 /\ Cardinality(WantedRows) <= res.skip)
    /\ ~Truthy(res.query.search) => res.total = Len(Table(res.kind))

C5_Witness ==
  /\ res.handler = "getAccounts"
  /\ res.query.search = <<"E">>
  /\ res.success
  /\ Len(accounts) = 2
  /\ Len(res.data) = 1
  /\ res.data[1].industry = <<"E", "d">>

\* the position (from 0) of stored row i among the wanted rows, newest first by
\* creation time
PositionNewestFirst(i) ==
  Cardinality({j \in WantedRows :
                 Table(res.kind)[j].createdAt > Table(res.kind)[i].createdAt})

\* C25 (as claimed): every list endpoint returns its records ordered by creation
\* time, newest first: page p with limit l (p >= 1, l >= 1) holds exactly the
\* matching records at positions (p-1)*l to p*l-1 of that order, in that order.
C25_NewestFirst ==
  (ListServed /\ res.success /\ res.page >= 1 /\ res.limit >= 1) =>
    LET first == (res.page - 1) * res.limit
        onPage == {i \in WantedRows :
                     PositionNewestFirst(i) \in first..(first + res.limit - 1)}
    IN  /\ Len(res.data) = Cardinality(onPage)
        /\ \A k \in 1..Len(res.data) :
             \E i \in onPage :
               /\ Table(res.kind)[i].id = res.data[k].id
               /\ PositionNewestFirst(i) = first + k - 1

\* the stored deal a createDeal response echoes
CreatedDeal == deals[CHOOSE i \in 1..Len(deals) : deals[i].id = res.data[1].id]

DayOf(date) == SubSeq(date, 1, 10)

\* C10: creating a deal whose closingDate is a text that is no valid date answers
\* 201 and stores the deal without a closing date; a valid date-only text and a
\* valid full timestamp are stored as the date they denote.
C10_ClosingDate ==
  (res.handler = "createDeal" /\ ~res.storeFailed /\ Truthy(res.body.closingDate)) =>
    /\ res.status = 201 /\ res.success = TRUE
    /\ res.body.closingDate \in {DateBadMonth, DateBadText}
         => CreatedDeal.closingDate = Undefined
    /\ res.body.closingDate = DateOnly
         => (CreatedDeal.closingDate # Undefined
             /\ DayOf(CreatedDeal.closingDate) = DateOnly)
    /\ res.body.closingDate = DateTimestamp
         => CreatedDeal.closingDate = DateTimestamp

C10_Witness ==
  /\ res.handler = "createDeal"
  /\ res.body.closingDate = DateBadMonth
  /\ res.status = 201
  /\ Len(deals) = 1
  /\ deals[1].closingDate = Undefined

\* the stored deal an updateDeal request names
UpdatedDeal == deals[CHOOSE i \in 1..Len(deals) : deals[i].id = res.id]

\* C22 (as claimed): updating a stored deal treats closingDate as creating one does:
\* the update is answered 200 whatever the text, a date-only text and a full
\* timestamp are stored as the date they denote, and a text that is no valid date
\* is not stored.
C22_UpdateClosingDate ==
  (res.handler = "updateDeal" /\ res.found /\ ~res.storeFailed
     /\ Truthy(res.body.closingDate)) =>
    /\ res.status = 200 /\ res.success = TRUE
    /\ res.body.closingDate = DateOnly
         => (UpdatedDeal.closingDate # Undefined
             /\ DayOf(UpdatedDeal.closingDate) = DateOnly)
    /\ res.body.closingDate = DateTimestamp
         => UpdatedDeal.closingDate = DateTimestamp
    /\ res.body.closingDate = DateBadMonth
         => UpdatedDeal.closingDate # DateBadMonth

UntypedActivityRequest(r) ==
  r.handler = "createActivity" /\ r.body.activityType = Undefined

\* a create of an activity without activityType is answered without success, and
\* every stored activity has an activityType
C23_State ==
  /\ UntypedActivityRequest(res) => (res.success = FALSE /\ res.data = <<>>)
  /\ \A i \in 1..Len(activities) : activities[i].activityType # Undefined

\* a create of an activity without activityType stores nothing
C23_Step == UntypedActivityRequest(res') => (tables' = tables /\ clock' = clock)

\* C23: creating an activity whose payload has no activityType is answered with
\* success:false and creates no activity record; every stored activity has an
\* activityType.
C23_ActivityType == []C23_State /\ [][C23_Step]_vars

C23_Witness ==
  /\ UntypedActivityRequest(res)
  /\ res.body.outcomeDisposition = <<"A">>
  /\ res.status = 500 /\ res.success = FALSE
  /\ Len(activities) = 1
  /\ activities[1].activityType = <<"A", "_", "B">>

UpdateHandlers ==
  {"updateContact", "updateAccount", "updateActivity", "updateDeal", "updateLead",
   "updateUserProfile"}

\* the payload leaves field f of its kind alone: f is not given, or f is an enum
\* field given as the empty string
LeftAlone(kind, body, f) ==
  \/ body[f] = Absent(f)
  \/ f \in EnumFields(kind) /\ body[f] = <<>>

\* the table of the kind as the step leaves it
TableAfter(kind) ==
  CASE kind = "contact" -> contacts'
    [] kind = "account" -> accounts'
    [] kind = "activity" -> activities'
    [] kind = "deal" -> deals'
    [] kind = "lead" -> leads'
    [] kind = "userProfile" -> userProfiles'

\* a successful update leaves the number of records, every record with another
\* id, every table of another kind, and every field of its record that the
\* payload leaves alone (but updatedBy), as they were
C24_Step ==
  (res'.handler \in UpdateHandlers /\ res'.success) =>
    LET kind == res'.kind
        before == Table(kind)
        after == TableAfter(kind)
    IN  /\ Len(after) = Len(before)
        /\ \A k \in Kinds \ {kind} : TableAfter(k) = Table(k)
        /\ \A i \in 1..Len(before) :
             IF before[i].id # res'.id
             THEN after[i] = before[i]
             ELSE \A f \in Columns(kind) \ {"updatedBy"} :
                    LeftAlone(kind, res'.body, f) => after[i][f] = before[i][f]

IdAndCreatorKept(kind) ==
  /\ Len(TableAfter(kind)) = Len(Table(kind))
  /\ \A i \in 1..Len(Table(kind)) :
       /\ TableAfter(kind)[i].id = Table(kind)[i].id
       /\ "createdBy" \in Columns(kind)
            => TableAfter(kind)[i].createdBy = Table(kind)[i].createdBy

\* C28 (as claimed): an update never changes a record's id or its createdBy,
\* whatever the request payload contains.
C28_IdAndCreatorKept ==
  [][(res'.handler \in UpdateHandlers /\ res'.success)
       => \A k \in Kinds : IdAndCreatorKept(k)]_vars

CreateHandlers ==
  {"createContact", "createAccount", "createActivity", "createDeal", "createLead"}

Responded == res.handler # "none"

\* C12 (as claimed): a successful create is answered 201 and a successful read,
\* update or delete 200, each with success:true; a response with success:false has
\* status 404 or 500; and status 500 is sent only when the store call failed.
C12_StatusCodes ==
  Responded =>
    /\ res.success => res.status = IF res.handler \in CreateHandlers THEN 201 ELSE 200
    /\ res.status \in {200, 201} => res.success
    /\ ~res.success => res.status \in {404, 500}
    /\ res.status = 500 => (res.threw /\ ~res.typeError)

\* C13: every handler invocation, whether the store call succeeds, finds nothing or
\* throws, ends with exactly one response envelope sent, and an exception is
\* answered with the 500 envelope instead of leaving the handler.
C13_OneResponse ==
  Responded =>
    /\ res.sent = 1
    /\ res.status \in {200, 201, 404, 500}
    /\ res.threw => (res.status = 500 /\ res.success = FALSE)

C13_Witness ==
  /\ res.handler = "updateCurrentUserProfile"
  /\ userProfiles # <<>>
  /\ res.storeFailed /\ res.threw
  /\ res.sent = 1 /\ res.status = 500

StampedKinds == {"contact", "account", "activity", "deal", "lead"}

\* the stored row a create or update response echoes
EchoedRow == Table(res.kind)[CHOOSE i \in 1..Len(Table(res.kind)) :
                               Table(res.kind)[i].id = res.data[1].id]

\* C14: whatever createdBy and updatedBy the payloads carried, every stored
\* contact, account, activity, deal and lead has updatedBy "system", and the record
\* a create has just stored has createdBy "system".
C14_Stamped ==
  /\ \A k \in StampedKinds : \A i \in 1..Len(Table(k)) : Table(k)[i].updatedBy = System
  /\ (res.handler \in CreateHandlers /\ res.success) => EchoedRow.createdBy = System

C14_Witness ==
  /\ res.handler = "updateAccount" /\ res.success
  /\ res.body.updatedBy = CurrentUser
  /\ Len(accounts) = 2
  /\ accounts[1].updatedBy = System
  /\ \E i \in 1..2 : accounts[i].id = res.id /\ accounts[i].createdBy = CurrentUser

CurrentProfileRead == res.handler = "getCurrentUserProfile" /\ res.success

\* a served current-user profile read answers the one stored profile
C15_State ==
  /\ Len(userProfiles) <= 1
  /\ CurrentProfileRead =>
       /\ Len(userProfiles) = 1
       /\ res.status = 200
       /\ res.data = <<userProfileView(userProfiles[1])>>

\* the read creates the default profile when none is stored and nothing otherwise
C15_Step ==
  (res'.handler = "getCurrentUserProfile" /\ res'.success) =>
    IF userProfiles = <<>>
    THEN /\ Len(userProfiles') = 1
         /\ \A f \in DOMAIN defaultUserProfile : userProfiles'[1][f] = defaultUserProfile[f]
    ELSE userProfiles' = userProfiles

\* C15: current-user profile reads made one after another: the first, with no
\* profile stored, creates exactly one default profile and returns it; every later
\* one returns that same record and creates nothing, so one profile is stored.
C15_CurrentProfile == []C15_State /\ [][C15_Step]_vars

C15_Witness ==
  /\ CurrentProfileRead
  /\ clock = 1
  /\ Len(userProfiles) = 1
  /\ userProfiles[1].id = IdOf(1)
  /\ userProfiles[1].firstName = <<"E", "d">>
  /\ res.data[1].id = IdOf(1)
  /\ res.data[1].firstName = <<"E", "d">>

\* the number of records stored in a table
Records(rows) == Cardinality({rows[i].id : i \in 1..Len(rows)})

\* the metrics of a generated report are the numbers of stored records
C16_Metrics ==
  (res.handler = "generateReport" /\ res.success) =>
    /\ res.data[1].metrics.totalContacts = Records(contacts)
    /\ res.data[1].metrics.totalAccounts = Records(accounts)
    /\ res.data[1].metrics.totalDeals = Records(deals)
    /\ res.data[1].metrics.totalActivities = Records(activities)
    /\ res.data[1].metrics.totalLeads = Records(leads)

\* generating a report leaves every table as it was
C16_Frame == res'.handler = "generateReport" => tables' = tables

\* C16: the metrics of a generated report are the total numbers of contacts,
\* accounts, deals, activities and leads in the store, whatever reportType, period,
\* salesRep, geo and businessLine the request carries, and generating a report
\* changes no stored record.
C16_Report == []C16_Metrics /\ [][C16_Frame]_vars

C16_Witness ==
  /\ res.handler = "generateReport" /\ res.success
  /\ res.body.geo = <<"A">> /\ res.body.period = <<"q">>
  /\ Len(deals) = 2
  /\ deals[1].geo = <<"A", "_", "B">>
  /\ res.data[1].metrics.totalDeals = 2
  /\ res.data[1].metrics.totalContacts = 0

----------------------------------------------------------------------------
(* Properties of concurrent invocations (under SpecConc) *)

UpdateCalls == {i \in 1..Len(inflight) : inflight[i].handler = "updateAccount"}

\* what the update of invocation i hands to the store
WrittenBy(i) == UpdateData(inflight[i].kind, inflight[i].body)

\* invocation j is the last applied update of its record that writes field f
LastWriter(j, f) ==
  /\ inflight[j].applied > 0
  /\ Given(WrittenBy(j), f)
  /\ \A k \in UpdateCalls :
       (inflight[k].id = inflight[j].id /\ Given(WrittenBy(k), f))
         => inflight[k].applied <= inflight[j].applied

\* C17: updates of the same existing record running concurrently: each one whose
\* store call finds the record (the store itself not failing) is answered 200 with
\* success:true, none is turned down because another was applied before it, and a
\* field written by several of them holds the value of the one applied last.
C17_LastWriteWins ==
  \A j \in UpdateCalls :
    /\ (inflight[j].pc = "done" /\ inflight[j].found /\ ~inflight[j].storeFailed)
         => (inflight[j].status = 200 /\ inflight[j].success /\ inflight[j].applied > 0)
    /\ \A f \in Columns("account") :
         (LastWriter(j, f) /\ RowsWithId("account", inflight[j].id) # {})
           => \A r \in RowsWithId("account", inflight[j].id) :
                accounts[r][f] = WrittenBy(j)[f]

C17_Witness ==
  /\ \E i, j \in UpdateCalls :
       /\ inflight[i].pc = "done" /\ inflight[j].pc = "done"
       /\ inflight[i].status = 200 /\ inflight[j].status = 200
       /\ inflight[i].applied = 2 /\ inflight[j].applied = 3
       /\ inflight[i].body.accountName = <<"E">>
       /\ inflight[j].body.accountName = <<"C", "d">>
  /\ Len(accounts) = 1
  /\ accounts[1].accountName = <<"C", "d">>
  /\ accounts[1].accountRating = <<"A">>
  /\ accounts[1].status = <<"A", "_", "B">>

ReportCalls == {i \in 1..Len(inflight) : inflight[i].handler = "generateReport"}

\* the totals a report answers with, in the order of Counts
Totals(i) ==
  LET m == inflight[i].data[1].metrics
  IN  <<m.totalContacts, m.totalAccounts, m.totalDeals, m.totalActivities, m.totalLeads>>

ReportAnswered(i) == inflight[i].pc = "done" /\ inflight[i].success

\* each total of an answered report is a count its table had in some state
C18_EachTotalSeen ==
  \A i \in ReportCalls :
    ReportAnswered(i) => \A n \in 1..5 : \E h \in history : Totals(i)[n] = h[n]

\* each count of a report reads its table as the store holds it at that moment
C18_CountReadsNow ==
  \A i \in ReportCalls :
    Len(inflight'[i].counts) = Len(inflight[i].counts) + 1
      => inflight'[i].counts[Len(inflight'[i].counts)]
           = Records(ReportTable(Len(inflight'[i].counts)))

\* C18: a report reads its five counts one after another, each from the store as it
\* is at that moment and not from a snapshot; with creates or deletes between the
\* counts its totals can together match no state the store was ever in (the
\* witness).
C18_NoSnapshot == []C18_EachTotalSeen /\ [][C18_CountReadsNow]_vars

C18_Witness ==
  \E i \in ReportCalls :
    /\ ReportAnswered(i)
    /\ Totals(i) \notin history
    /\ Totals(i) = <<0, 1, 0, 0, 0>>
    /\ Counts = <<1, 1, 0, 0, 0>>

ProfileReads ==
  {i \in 1..Len(inflight) : inflight[i].handler = "getCurrentUserProfile"}

\* C27 (as claimed): whatever the interleaving of concurrent current-user profile
\* reads and updates over an empty profile store, at most one user profile is
\* stored and all the reads that are answered return the same record.
C27_OneCurrentProfile ==
  /\ Len(userProfiles) <= 1
  /\ \A i, j \in ProfileReads :
       (ReportAnswered(i) /\ ReportAnswered(j))
         => inflight[i].data[1].id = inflight[j].data[1].id

----------------------------------------------------------------------------
(* Properties of the Accounts view (under SpecView) *)

\* a save of a form missing a required field calls nothing and leaves the dialog,
\* the form and the account being edited as they are
C19_BlockedSave ==
  (view'.event = "save" /\ missingRequired(view.formData)) =>
    /\ view'.calls = <<>>
    /\ view'.showNewAccountDialog = view.showNewAccountDialog
    /\ view'.showNewAccountDialog
    /\ view'.formData = view.formData
    /\ view'.editingAccount = view.editingAccount
    /\ tables' = tables

\* every addAccount call, and every account stored from the view, has both fields
C19_BothFields ==
  /\ \A k \in 1..Len(view.calls) :
       view.calls[k].op = "addAccount"
         => (Truthy(view.calls[k].payload.accountName)
             /\ Truthy(view.calls[k].payload.industry))
  /\ \A i \in 1..Len(accounts) :
       Truthy(accounts[i].accountName) /\ Truthy(accounts[i].industry)

\* C19: in the Accounts view a save of a form whose accountName or industry is
\* empty calls neither addAccount nor updateAccount and leaves the dialog open with
\* formData and editingAccount unchanged, so no account is created from the view
\* without both fields.
C19_RequiredFields == []C19_BothFields /\ [][C19_BlockedSave]_vars

C19_Witness ==
  /\ view.event = "save"
  /\ view.showNewAccountDialog
  /\ Get(view.formData, "accountName") = <<"A", "b">>
  /\ ~Truthy(Get(view.formData, "industry"))
  /\ view.calls = <<>>
  /\ accounts = <<>>

SuccessAlerts == {"created", "updated", "deleted"}

\* C20 (as claimed): when the addAccount or updateAccount of a save, or the
\* deleteAccount of a delete, fails, the view shows an error alert and does not
\* show the success alert.
C20_FailureAlert ==
  \A k \in 1..Len(view.calls) :
    view.calls[k].outcome # "ok" =>
      /\ \E a \in 1..Len(view.alerts) : view.alerts[a] = "error"
      /\ \A a \in 1..Len(view.alerts) : view.alerts[a] \notin SuccessAlerts

\* a step that is a save of a form holding both required fields
SaveWithBoth == view'.event = "save" /\ ~missingRequired(view.formData)

\* the save makes exactly one store call: updateAccount with the id of the account
\* the dialog was opened for by Edit, addAccount otherwise
OneMutation ==
  /\ Len(view'.calls) = 1
  /\ IF view.opened.by = "edit"
     THEN /\ view'.calls[1].op = "updateAccount"
          /\ view'.calls[1].id = view.opened.id
     ELSE view'.calls[1].op = "addAccount"

FormClosed(v) ==
  ~v.showNewAccountDialog /\ v.editingAccount = <<>> /\ v.formData = <<>>

SaveReturned == SaveWithBoth /\ view'.calls[1].outcome = "ok"
SaveThrew == SaveWithBoth /\ view'.calls[1].outcome # "ok"

C30_State ==
  view.event \in {"newAccount", "triggerNewItem"} =>
    /\ view.showNewAccountDialog
    /\ view.editingAccount = <<>>
    /\ view.formData = <<>>

\* a triggerNewItem event of another type leaves the view and the store alone
C30_Step ==
  view'.event = "triggerOther" =>
    /\ view'.filterType = view.filterType
    /\ view'.showNewAccountDialog = view.showNewAccountDialog
    /\ view'.editingAccount = view.editingAccount
    /\ view'.formData = view.formData
    /\ view'.calls = <<>> /\ view'.alerts = <<>>
    /\ tables' = tables

\* C30: whenever the account dialog becomes open for creation (by the New Account
\* button or by a triggerNewItem event of type "accounts"), editingAccount is null
\* and formData is empty, whatever edit, cancel, dismiss and save came before; a
\* triggerNewItem event of any other type changes no state of the view.
C30_OpenForCreation == []C30_State /\ [][C30_Step]_vars

C30_Witness ==
  /\ view.event = "triggerNewItem"
  /\ view.opened.by = "triggerNewItem"
  /\ view.showNewAccountDialog
  /\ view.editingAccount = <<>> /\ view.formData = <<>>
  /\ Len(accounts) = 2
  /\ accounts[2].accountRating = <<"G", "O", "L", "D">>

\* the table of the view shows the stored account with the id
Shown(id) == \E k \in 1..Len(filteredAccounts) : filteredAccounts[k].id = id

\* C29 (as claimed): an account whose stored status is SUSPECT, PROSPECT,
\* ACTIVE_DEAL or DO_NOT_CALL, held by the client as the accounts endpoint returns
\* it, is shown when the filter of the same name is selected, and every account is
\* shown under the filter "all".
C29_FilterShows ==
  \A i \in 1..Len(accounts) :
    /\ (accounts[i].status \in AccountStatuses
          /\ view.filterType = toLowerCase(accounts[i].status))
         => Shown(accounts[i].id)
    /\ view.filterType = <<"a", "l", "l">> => Shown(accounts[i].id)

====
